---- MODULE Spec2Model ----
(***************************************************************************)
(* floatchat: chatService.sendMessage of the frontend and the             *)
(* synthetic-response engine it falls back to (generateMockResponse and    *)
(* its generate*Data / generate*Visualization helpers).                    *)
(*                                                                         *)
(* A JavaScript string is modelled as a sequence of one-character strings, *)
(* so that toLowerCase() and includes() are computed character by          *)
(* character.  A decimal number is modelled as an integer count of         *)
(* thousandths (22.1 is 22100, -1.8 is -1800, 0.95 is 950).                *)
(***************************************************************************)
EXTENDS Integers, Sequences, FiniteSets, TLC

VARIABLES
    text,         \* engine: the text the user typed, before any re-casing
    called,       \* engine: TRUE once generateMockResponse has been called
    message,      \* engine: the string handed to the latest generateMockResponse call
    doc,          \* engine: the ResponseDocument that call returned, or NoDoc
    prevMessage,  \* engine: the argument of the call before the latest one
    prevDoc,      \* engine: the document that earlier call returned, or NoDoc
    draws,        \* engine: what Math.random() had in store for the latest call
    prevDraws,    \* engine: what it had in store for the call before
    clock,        \* engine: the clock at the latest call
    heap,         \* engine: the documents allocated so far, by address (SpecFresh)
    ref,          \* engine: the address the latest call returned, 0 before it
    call,         \* chatService: per caller, the state of its sendMessage call
    history,      \* chatService: per caller, the state of its getChatHistory call
    messages,     \* ChatInterface: the messages state, oldest first
    inputValue,   \* ChatInterface: the inputValue state
    isLoading,    \* ChatInterface: the isLoading state
    handler,      \* ChatInterface: per sendMessage call, the handleSendMessage
                  \* invocation that awaits it: "none", "awaiting" or "done"
    view,         \* ChatInterface: inputValue and isLoading as last rendered
    now,          \* ChatInterface: Date.now(), in ms
    token,        \* AuthService: the token field
    localStorage, \* the 'access_token' entry of localStorage, Null when absent
    authCall,     \* AuthService: per caller, the state of its login call
    user,         \* AuthProvider: the user state
    loading,      \* AuthProvider: the loading state
    checkAuth,    \* AuthProvider: the position of the start-up check
    login,        \* AuthProvider: the state of the login call of the context
    registerForm, \* RegisterForm: userData, confirmPassword, loading, error
    handleSubmit  \* RegisterForm: the state of the handleSubmit invocation

chatVars == <<messages, inputValue, isLoading, handler, view, now>>

authVars ==
    <<token, localStorage, authCall, user, loading, checkAuth, login, registerForm, handleSubmit>>

vars ==
    << text, called, message, doc, prevMessage, prevDoc, draws, prevDraws, clock, heap, ref,
       call, history, chatVars, authVars >>

(***************************************************************************)
(* Strings                                                                 *)
(***************************************************************************)

\* String.prototype.toLowerCase on one character.  The texts of this model
\* are written with the ASCII letters, the blank and the small letter e-acute:
\* the 26 ASCII capitals map to their small letters, and each of the other
\* characters of the texts maps to itself.
UpperToLower ==
    "A" :> "a" @@ "B" :> "b" @@ "C" :> "c" @@ "D" :> "d" @@ "E" :> "e" @@ "F" :> "f"
    @@ "G" :> "g" @@ "H" :> "h" @@ "I" :> "i" @@ "J" :> "j" @@ "K" :> "k" @@ "L" :> "l"
    @@ "M" :> "m" @@ "N" :> "n" @@ "O" :> "o" @@ "P" :> "p" @@ "Q" :> "q" @@ "R" :> "r"
    @@ "S" :> "s" @@ "T" :> "t" @@ "U" :> "u" @@ "V" :> "v" @@ "W" :> "w" @@ "X" :> "x"
    @@ "Y" :> "y" @@ "Z" :> "z"

\* toLowerCase dropped: the tests run on the message as typed.
toLowerCaseOmitted(s) == s

toLowerCase(s) ==
    [i \in 1..Len(s) |-> IF s[i] \in DOMAIN UpperToLower THEN UpperToLower[s[i]] ELSE s[i]]

\* A whole-word test in place of includes: kw must occur between blanks or
\* the ends of s.
includesWord(s, kw) ==
    \E i \in 0..(Len(s) - Len(kw)) :
        /\ SubSeq(s, i + 1, i + Len(kw)) = kw
        /\ (i = 0 \/ s[i] = " ")
        /\ (i + Len(kw) = Len(s) \/ s[i + Len(kw) + 1] = " ")

\* String.prototype.includes: kw occurs in s as a contiguous substring.
includes(s, kw) ==
    \E i \in 0..(Len(s) - Len(kw)) :
        s[i + 1] = kw[1] /\ SubSeq(s, i + 1, i + Len(kw)) = kw

(***************************************************************************)
(* The keywords generateMockResponse searches the lower-cased message for  *)
(***************************************************************************)
kwTemperature == <<"t","e","m","p","e","r","a","t","u","r","e">>
kwAnomaly == <<"a","n","o","m","a","l","y">>
kwUnusual == <<"u","n","u","s","u","a","l">>
kwDepth == <<"d","e","p","t","h">>
kwProfile == <<"p","r","o","f","i","l","e">>
kwTrend == <<"t","r","e","n","d">>
kwSalinity == <<"s","a","l","i","n","i","t","y">>
kwCurrent == <<"c","u","r","r","e","n","t">>
kwVelocity == <<"v","e","l","o","c","i","t","y">>
kwAtlantic == <<"a","t","l","a","n","t","i","c">>
kwPacific == <<"p","a","c","i","f","i","c">>

(***************************************************************************)
(* The random source.  Math.random() returns a number in [0, 1); a draw is *)
(* modelled in hundredths, 0..99.  One call of the engine reads a stream   *)
(* of draws: draw k of the call is env.rand[k].                            *)
(***************************************************************************)

\* Array.from({length: 30}, ...) in the two time-series generators
SeriesLength == 30

\* The clock.  A call reads it with new Date(), once per element of a date
\* array.  env.clock gives the time zone of the runtime, the local day (days
\* since 1970-01-01) and the local hour at the start of the call, and
\* rollover: the number of readings after which the local clock has passed
\* to the next hour, 0 when it does not within the call.
\*
\* A zone is its standard offset from UTC in hours and, when it keeps
\* daylight saving time, the local day on which the clocks go forward by one
\* hour (at 02:00 standard time, to 03:00).
UtcOffset(zone, day, hour) ==
    zone.standard
    + (IF zone.dst /\ (day > zone.dstStart \/ (day = zone.dstStart /\ hour >= 3))
       THEN 1 ELSE 0)

\* new Date(): the local day and hour at reading k of the call.
LocalNow(started, k) ==
    IF started.rollover > 0 /\ k > started.rollover
    THEN [ day |-> started.day + ((started.hour + 1) \div 24), hour |-> (started.hour + 1) % 24 ]
    ELSE [ day |-> started.day, hour |-> started.hour ]

\* date.setDate(date.getDate() - back): the local calendar day moves, the
\* local time of day stays.
setDateBack(date, back) == [ day |-> date.day - back, hour |-> date.hour ]

\* date.toISOString().split('T')[0]: the calendar day, in UTC, of the
\* instant that is the local day and hour in the zone, in the ISO format.
\* A calendar day is kept as its number of days since 1970-01-01.
toISODate(zone, date) ==
    [ format |-> "iso",
      day |-> date.day + ((date.hour - UtcOffset(zone, date.day, date.hour)) \div 24) ]

\* date.toLocaleDateString(): the local calendar day, in the format of the
\* locale.
toLocaleDateString(date) == [ format |-> "locale", day |-> date.day ]

\* Noon UTC in a runtime that keeps UTC, the clock standing still.
NoonClock ==
    [ zone |-> [standard |-> 0, dst |-> FALSE, dstStart |-> 0],
      day |-> 20180, hour |-> 12, rollover |-> 0 ]

\* The jitter not centred: 18.7 + Math.random() * 4.6.
JitteredTemperatureUncentred(r) == 18700 + r * 46

\* 18.7 + (Math.random() - 0.5) * 4.6, in thousandths, for a draw r in hundredths
JitteredTemperature(r) == 18700 + (r - 50) * 46

(***************************************************************************)
(* Mock data generation functions.  Of a plot series the model keeps x, y,  *)
(* type, mode and name, and of a layout the title and the axes; the line   *)
(* and marker styling literals are left out.                               *)
(***************************************************************************)

\* The anomaly records sorted by their deviation instead of by date.
generateTemperatureAnomalyDataByDeviation ==
    [ region |-> "North Atlantic",
      parameter |-> "temperature",
      anomalies |-> <<
        [date |-> "2024-01-22", value |-> 16200, anomaly |-> -1800, lat |-> 47800, lon |-> -28500],
        [date |-> "2024-01-15", value |-> 20100, anomaly |-> 2100, lat |-> 45200, lon |-> -30100],
        [date |-> "2024-02-03", value |-> 21200, anomaly |-> 3200, lat |-> 44100, lon |-> -32300] >>,
      statistics |-> [ total_anomalies |-> 3,
                       max_positive |-> 3200,
                       max_negative |-> -1800,
                       confidence |-> 950 ] ]

generateTemperatureAnomalyData ==
    [ region |-> "North Atlantic",
      parameter |-> "temperature",
      anomalies |-> <<
        [date |-> "2024-01-15", value |-> 20100, anomaly |-> 2100, lat |-> 45200, lon |-> -30100],
        [date |-> "2024-01-22", value |-> 16200, anomaly |-> -1800, lat |-> 47800, lon |-> -28500],
        [date |-> "2024-02-03", value |-> 21200, anomaly |-> 3200, lat |-> 44100, lon |-> -32300] >>,
      statistics |-> [ total_anomalies |-> 3,
                       max_positive |-> 3200,
                       max_negative |-> -1800,
                       confidence |-> 950 ] ]

generateTemperatureAnomalyVisualization ==
    [ data |-> <<
        [ x |-> <<"Jan 1", "Jan 8", "Jan 15", "Jan 22", "Jan 29", "Feb 5", "Feb 12", "Feb 19", "Feb 26">>,
          y |-> <<18200, 18500, 20100, 16200, 18900, 21200, 18700, 19100, 18400>>,
          type |-> "scatter", mode |-> "lines+markers", name |-> "Temperature" ],
        [ x |-> <<"Jan 15", "Jan 22", "Feb 5">>,
          y |-> <<20100, 16200, 21200>>,
          type |-> "scatter", mode |-> "markers", name |-> "Anomalies" ] >>,
      layout |-> [ title |-> "Temperature Anomaly Detection",
                   xaxis |-> [title |-> "Date"],
                   yaxis |-> [title |-> "Temperature (°C)"] ] ]

\* The deepest temperature reading left out: 12 temperatures for 13 depths.
generateDepthProfileDataShort ==
    [ depths |-> <<0, 10, 20, 50, 100, 150, 200, 300, 500, 750, 1000, 1500, 2000>>,
      temperatures |-> <<22100, 21800, 21200, 19500, 16800, 13200, 10500, 8100, 6200, 5100, 4800, 4200>>,
      location |-> [lat |-> 40500, lon |-> -30000, region |-> "North Atlantic"] ]

generateDepthProfileData ==
    [ depths |-> <<0, 10, 20, 50, 100, 150, 200, 300, 500, 750, 1000, 1500, 2000>>,
      temperatures |-> <<22100, 21800, 21200, 19500, 16800, 13200, 10500, 8100, 6200, 5100, 4800, 4200, 4000>>,
      location |-> [lat |-> 40500, lon |-> -30000, region |-> "North Atlantic"] ]

generateDepthProfileVisualization ==
    [ data |-> <<
        [ x |-> <<22100, 21800, 21200, 19500, 16800, 13200, 10500, 8100, 6200, 5100, 4800, 4200, 4000>>,
          y |-> <<0, 10, 20, 50, 100, 150, 200, 300, 500, 750, 1000, 1500, 2000>>,
          type |-> "scatter", mode |-> "lines+markers", name |-> "Temperature Profile" ] >>,
      layout |-> [ title |-> "Ocean Temperature Depth Profile",
                   xaxis |-> [title |-> "Temperature (°C)"],
                   yaxis |-> [title |-> "Depth (m)", autorange |-> "reversed"] ] ]

\* The series shifted by one year.
generateTrendDataFrom2010 ==
    [ years |-> <<2010, 2011, 2012, 2013, 2014, 2015, 2016, 2017, 2018, 2019, 2020, 2021, 2022, 2023, 2024, 2025>>,
      temperatures |-> <<17800, 17900, 18100, 18000, 18300, 18400, 18600, 18800, 18700, 19000, 19200, 19100, 19300, 19500, 19400, 19600>>,
      trend_slope |-> 15,
      r_squared |-> 870 ]

generateTrendData ==
    [ years |-> <<2009, 2010, 2011, 2012, 2013, 2014, 2015, 2016, 2017, 2018, 2019, 2020, 2021, 2022, 2023, 2024>>,
      temperatures |-> <<17800, 17900, 18100, 18000, 18300, 18400, 18600, 18800, 18700, 19000, 19200, 19100, 19300, 19500, 19400, 19600>>,
      trend_slope |-> 15,
      r_squared |-> 870 ]

generateTrendVisualization ==
    [ data |-> <<
        [ x |-> <<2009, 2010, 2011, 2012, 2013, 2014, 2015, 2016, 2017, 2018, 2019, 2020, 2021, 2022, 2023, 2024>>,
          y |-> <<17800, 17900, 18100, 18000, 18300, 18400, 18600, 18800, 18700, 19000, 19200, 19100, 19300, 19500, 19400, 19600>>,
          type |-> "scatter", mode |-> "lines+markers", name |-> "Annual Mean Temperature" ],
        [ x |-> <<2009, 2024>>,
          y |-> <<17775, 19625>>,
          type |-> "scatter", mode |-> "lines", name |-> "Trend (+0.15°C/decade)" ] >>,
      layout |-> [ title |-> "Long-term Temperature Trend Analysis",
                   xaxis |-> [title |-> "Year"],
                   yaxis |-> [title |-> "Temperature (°C)"] ] ]

\* Clock readings 1..30 and draws 1..30 of the call, in order, one per
\* element: element i (from 0) of dates is the reading moved back 29 - i
\* days.
generateTemperatureTimeSeriesData(env) ==
    [ dates |-> [j \in 1..SeriesLength |->
                   toISODate(env.clock.zone,
                             setDateBack(LocalNow(env.clock, j), 29 - (j - 1)))],
      temperatures |-> [i \in 1..SeriesLength |-> JitteredTemperature(env.rand[i])],
      statistics |-> [ mean |-> 18700,
                       std |-> 2300,
                       min |-> 15200,
                       max |-> 22100,
                       valid_measurements |-> 960,
                       active_floats |-> 47 ] ]

\* Called after generateTemperatureTimeSeriesData in the same object literal,
\* so it reads clock readings 31..60 and draws 31..60 of the call.
generateTemperatureTimeSeriesVisualization(env) ==
    [ data |-> <<
        [ x |-> [j \in 1..SeriesLength |->
                   toLocaleDateString(
                       setDateBack(LocalNow(env.clock, SeriesLength + j), 29 - (j - 1)))],
          y |-> [i \in 1..SeriesLength |-> JitteredTemperature(env.rand[SeriesLength + i])],
          type |-> "scatter", mode |-> "lines+markers", name |-> "Temperature" ] >>,
      layout |-> [ title |-> "Ocean Temperature Time Series",
                   xaxis |-> [title |-> "Date"],
                   yaxis |-> [title |-> "Temperature (°C)"] ] ]

generateTemperatureMapData ==
    [ markers |-> <<
        [lat |-> 42300, lon |-> -71100, title |-> "Float #2847", description |-> "Temperature: 19.2°C",
         data |-> [temp |-> "19.2°C", salinity |-> "35.1 PSU"]],
        [lat |-> 40700, lon |-> -74000, title |-> "Float #2851", description |-> "Temperature: 18.5°C",
         data |-> [temp |-> "18.5°C", salinity |-> "35.3 PSU"]],
        [lat |-> 39100, lon |-> -76800, title |-> "Float #2856", description |-> "Temperature: 17.8°C",
         data |-> [temp |-> "17.8°C", salinity |-> "35.0 PSU"]] >> ]

generateSalinityData ==
    [ depths |-> <<0, 25, 50, 100, 200, 400, 600, 800, 1000, 1500, 2000>>,
      salinity |-> <<34800, 35100, 35300, 35600, 35800, 35900, 35900, 35800, 35700, 35500, 35400>>,
      statistics |-> [mean |-> 35200, std |-> 400, halocline_depth |-> 250] ]

\* The plot with salinity on the y axis and depth on the x axis.
generateSalinityVisualizationSwapped ==
    [ data |-> <<
        [ x |-> <<0, 25, 50, 100, 200, 400, 600, 800, 1000, 1500, 2000>>,
          y |-> <<34800, 35100, 35300, 35600, 35800, 35900, 35900, 35800, 35700, 35500, 35400>>,
          type |-> "scatter", mode |-> "lines+markers", name |-> "Salinity Profile" ] >>,
      layout |-> [ title |-> "Ocean Salinity Depth Profile",
                   xaxis |-> [title |-> "Salinity (PSU)"],
                   yaxis |-> [title |-> "Depth (m)", autorange |-> "reversed"] ] ]

generateSalinityVisualization ==
    [ data |-> <<
        [ x |-> <<34800, 35100, 35300, 35600, 35800, 35900, 35900, 35800, 35700, 35500, 35400>>,
          y |-> <<0, 25, 50, 100, 200, 400, 600, 800, 1000, 1500, 2000>>,
          type |-> "scatter", mode |-> "lines+markers", name |-> "Salinity Profile" ] >>,
      layout |-> [ title |-> "Ocean Salinity Depth Profile",
                   xaxis |-> [title |-> "Salinity (PSU)"],
                   yaxis |-> [title |-> "Depth (m)", autorange |-> "reversed"] ] ]

\* The directions array one element short.
generateCurrentDataShort ==
    [ velocities |-> <<150, 230, 310, 280, 190, 340, 410, 380, 250, 290>>,
      directions |-> <<225, 230, 235, 220, 240, 225, 215, 230, 235>>,
      statistics |-> [mean_velocity |-> 280, predominant_direction |-> 228] ]

generateCurrentData ==
    [ velocities |-> <<150, 230, 310, 280, 190, 340, 410, 380, 250, 290>>,
      directions |-> <<225, 230, 235, 220, 240, 225, 215, 230, 235, 228>>,
      statistics |-> [mean_velocity |-> 280, predominant_direction |-> 228] ]

generateCurrentMapData ==
    [ markers |-> <<
        [lat |-> 35500, lon |-> -75000, title |-> "Current Station A", description |-> "Velocity: 0.31 m/s SW",
         data |-> [velocity |-> "0.31 m/s", direction |-> "225°"]],
        [lat |-> 36200, lon |-> -74500, title |-> "Current Station B", description |-> "Velocity: 0.28 m/s SW",
         data |-> [velocity |-> "0.28 m/s", direction |-> "230°"]] >> ]

generateCurrentTimeSeriesVisualization ==
    [ data |-> <<
        [ x |-> <<"Week 1", "Week 2", "Week 3", "Week 4">>,
          y |-> <<250, 320, 280, 310>>,
          type |-> "bar", name |-> "Current Velocity" ] >>,
      layout |-> [ title |-> "Ocean Current Velocity Over Time",
                   xaxis |-> [title |-> "Time Period"],
                   yaxis |-> [title |-> "Velocity (m/s)"] ] ]

generateAtlanticData ==
    [ region |-> "North Atlantic",
      temperature_range |-> <<12500, 24800>>,
      salinity_range |-> <<34200, 36500>>,
      characteristics |-> <<"Gulf Stream influence", "Strong seasonal cycles", "Deep water formation">> ]

generateAtlanticMapData ==
    [ markers |-> <<
        [lat |-> 40000, lon |-> -70000, title |-> "Gulf Stream", description |-> "Warm current system",
         data |-> [temp |-> "22.5°C", salinity |-> "36.2 PSU"]],
        [lat |-> 45000, lon |-> -45000, title |-> "North Atlantic Current", description |-> "Extension of Gulf Stream",
         data |-> [temp |-> "15.8°C", salinity |-> "35.4 PSU"]],
        [lat |-> 35000, lon |-> -65000, title |-> "Sargasso Sea", description |-> "Subtropical gyre center",
         data |-> [temp |-> "24.1°C", salinity |-> "36.8 PSU"]] >> ]

generateAtlanticTimeSeriesVisualization ==
    [ data |-> <<
        [ x |-> <<"Jan", "Feb", "Mar", "Apr", "May", "Jun", "Jul", "Aug", "Sep", "Oct", "Nov", "Dec">>,
          y |-> <<16200, 15800, 16500, 18200, 20100, 22500, 24800, 24200, 22800, 20500, 18900, 17100>>,
          type |-> "scatter", mode |-> "lines+markers", name |-> "North Atlantic SST" ] >>,
      layout |-> [ title |-> "North Atlantic Seasonal Temperature Cycle",
                   xaxis |-> [title |-> "Month"],
                   yaxis |-> [title |-> "Temperature (°C)"] ] ]

generatePacificData ==
    [ region |-> "Pacific Ocean",
      area |-> "165.2 million km²",
      characteristics |-> <<"Largest ocean basin", "Ring of Fire", "El Niño/La Niña oscillations">>,
      depth_stats |-> [mean |-> 4280, max |-> 11034] ]

generatePacificMapData ==
    [ markers |-> <<
        [lat |-> 0, lon |-> -150000, title |-> "Equatorial Pacific", description |-> "Upwelling zone",
         data |-> [temp |-> "26.8°C", salinity |-> "34.5 PSU"]],
        [lat |-> 35000, lon |-> -140000, title |-> "Kuroshio Current", description |-> "Western boundary current",
         data |-> [temp |-> "18.5°C", salinity |-> "34.8 PSU"]],
        [lat |-> -20000, lon |-> -150000, title |-> "South Pacific Gyre", description |-> "Subtropical circulation",
         data |-> [temp |-> "25.2°C", salinity |-> "35.2 PSU"]] >> ]

generateDefaultData ==
    [ measurement_count |-> 1247,
      float_count |-> 23,
      date_range |-> "2024-01-01 to 2024-02-01",
      parameters |-> <<"temperature", "salinity", "pressure">> ]

generateDefaultVisualization ==
    [ data |-> <<
        [ x |-> <<"Week 1", "Week 2", "Week 3", "Week 4">>,
          y |-> <<18200, 18700, 17900, 19100>>,
          type |-> "scatter", mode |-> "lines+markers", name |-> "Ocean Parameter" ] >>,
      layout |-> [ title |-> "Ocean Data Analysis",
                   xaxis |-> [title |-> "Time Period"],
                   yaxis |-> [title |-> "Measurement Value"] ] ]

(***************************************************************************)
(* generateMockResponse                                                    *)
(***************************************************************************)

\* The object literal returned at lines 46-61.
temperatureAnomalyResponse ==
    [ message |-> "I've analyzed temperature anomalies in the requested region. The data shows 3 significant temperature anomalies in the past month, with deviations of +2.1°C, -1.8°C, and +3.2°C from the seasonal average. These anomalies are highlighted in the visualization below.",
      data |-> generateTemperatureAnomalyData,
      visualizations |-> << [type |-> "plot", data |-> generateTemperatureAnomalyVisualization] >>,
      suggestions |-> << "Show depth profile for these anomalies",
                         "Compare with historical data",
                         "Analyze salinity during anomaly periods",
                         "Check ocean current patterns" >> ]

\* The object literal returned at lines 63-78.
temperatureDepthProfileResponse ==
    [ message |-> "Here's the temperature depth profile for the selected region. The thermocline is clearly visible at approximately 200-800m depth, with surface temperatures around 22°C decreasing to 4°C at 2000m depth.",
      data |-> generateDepthProfileData,
      visualizations |-> << [type |-> "plot", data |-> generateDepthProfileVisualization] >>,
      suggestions |-> << "Show salinity depth profile",
                         "Compare different seasons",
                         "Analyze thermocline variability",
                         "Display mixed layer depth" >> ]

\* The object literal returned at lines 80-95.
temperatureTrendResponse ==
    [ message |-> "Temperature trend analysis shows a warming trend of +0.15°C per decade in this region. The analysis covers the last 15 years of ARGO data with high confidence intervals. Seasonal patterns show peak temperatures in August-September.",
      data |-> generateTrendData,
      visualizations |-> << [type |-> "plot", data |-> generateTrendVisualization] >>,
      suggestions |-> << "Show confidence intervals",
                         "Compare with global trends",
                         "Analyze seasonal variations",
                         "Project future temperatures" >> ]

\* The follow-up suggestions rotated by the first draw of the call.
temperatureResponseRotated(env) ==
    [ message |-> "I've retrieved temperature data for your specified region and time period. The analysis shows mean temperatures of 18.7°C with a standard deviation of 2.3°C. Data quality is excellent with 96% valid measurements from 47 active floats.",
      data |-> generateTemperatureTimeSeriesData(env),
      visualizations |-> << [type |-> "plot", data |-> generateTemperatureTimeSeriesVisualization(env)],
                            [type |-> "map", data |-> generateTemperatureMapData] >>,
      suggestions |-> IF env.rand[1] < 50
                      THEN << "Show temperature depth profile",
                              "Analyze temperature anomalies",
                              "Compare with salinity data",
                              "Display seasonal patterns" >>
                      ELSE << "Display seasonal patterns",
                              "Show temperature depth profile",
                              "Analyze temperature anomalies",
                              "Compare with salinity data" >> ]

\* The object literal returned at lines 97-116.
temperatureResponse(env) ==
    [ message |-> "I've retrieved temperature data for your specified region and time period. The analysis shows mean temperatures of 18.7°C with a standard deviation of 2.3°C. Data quality is excellent with 96% valid measurements from 47 active floats.",
      data |-> generateTemperatureTimeSeriesData(env),
      visualizations |-> << [type |-> "plot", data |-> generateTemperatureTimeSeriesVisualization(env)],
                            [type |-> "map", data |-> generateTemperatureMapData] >>,
      suggestions |-> << "Show temperature depth profile",
                         "Analyze temperature anomalies",
                         "Compare with salinity data",
                         "Display seasonal patterns" >> ]

\* The object literal returned at lines 122-137.
salinityResponse ==
    [ message |-> "Salinity analysis completed for the requested area. Average salinity is 35.2 PSU with interesting variability near the surface due to precipitation and evaporation effects. The halocline is well-defined between 100-400m depth.",
      data |-> generateSalinityData,
      visualizations |-> << [type |-> "plot", data |-> generateSalinityVisualization] >>,
      suggestions |-> << "Show salinity-temperature relationship",
                         "Analyze density profiles",
                         "Display freshwater influence",
                         "Compare with temperature data" >> ]

\* The object literal returned at lines 142-161.
currentResponse ==
    [ message |-> "Ocean current analysis shows predominant southwestward flow with average velocities of 0.23 m/s. Strong seasonal variability is observed with peak velocities during winter months. The current structure shows typical characteristics of the regional circulation pattern.",
      data |-> generateCurrentData,
      visualizations |-> << [type |-> "map", data |-> generateCurrentMapData],
                            [type |-> "plot", data |-> generateCurrentTimeSeriesVisualization] >>,
      suggestions |-> << "Show velocity depth profile",
                         "Analyze current direction patterns",
                         "Compare with wind data",
                         "Display eddy activity" >> ]

\* The object literal returned at lines 166-185.
atlanticResponse ==
    [ message |-> "North Atlantic Ocean analysis reveals typical mid-latitude oceanic conditions. The region shows strong seasonal temperature cycles, well-developed thermocline structure, and characteristic salinity patterns influenced by the Gulf Stream system.",
      data |-> generateAtlanticData,
      visualizations |-> << [type |-> "map", data |-> generateAtlanticMapData],
                            [type |-> "plot", data |-> generateAtlanticTimeSeriesVisualization] >>,
      suggestions |-> << "Analyze Gulf Stream influence",
                         "Show North Atlantic Oscillation effects",
                         "Compare with Pacific data",
                         "Display seasonal variations" >> ]

\* The object literal returned at lines 189-204.
pacificResponse ==
    [ message |-> "Pacific Ocean data analysis reveals the vast scale and complexity of this ocean basin. Temperature patterns show strong equatorial upwelling, El Niño/La Niña influences, and distinct North-South gradients. The Pacific contains the world's deepest ocean trenches reflected in our depth profile data.",
      data |-> generatePacificData,
      visualizations |-> << [type |-> "map", data |-> generatePacificMapData] >>,
      suggestions |-> << "Show El Niño effects",
                         "Analyze Pacific Decadal Oscillation",
                         "Display equatorial upwelling",
                         "Compare North vs South Pacific" >> ]

\* A map pasted into the default document after its plot.
defaultResponseWithMap ==
    [ message |-> "I've processed your ocean data query and prepared a comprehensive analysis. The data includes measurements from multiple ARGO floats covering temperature, salinity, and depth information. The visualization shows spatial and temporal patterns in the requested parameters.",
      data |-> generateDefaultData,
      visualizations |-> << [type |-> "plot", data |-> generateDefaultVisualization],
                            [type |-> "map", data |-> generateTemperatureMapData] >>,
      suggestions |-> << "Show me temperature trends",
                         "Analyze salinity patterns",
                         "Display depth profiles",
                         "Find temperature anomalies" >> ]

\* The object literal returned at lines 209-224.
defaultResponse ==
    [ message |-> "I've processed your ocean data query and prepared a comprehensive analysis. The data includes measurements from multiple ARGO floats covering temperature, salinity, and depth information. The visualization shows spatial and temporal patterns in the requested parameters.",
      data |-> generateDefaultData,
      visualizations |-> << [type |-> "plot", data |-> generateDefaultVisualization] >>,
      suggestions |-> << "Show me temperature trends",
                         "Analyze salinity patterns",
                         "Display depth profiles",
                         "Find temperature anomalies" >> ]

\* What a call that reaches no return statement evaluates to.
Undefined == [undefined |-> TRUE]

\* The salinity test moved in front of the temperature test.
generateMockResponseSalinityFirst(msg, env) ==
    LET lowerMessage == toLowerCase(msg) IN
    IF includes(lowerMessage, kwSalinity) THEN
        salinityResponse
    ELSE IF includes(lowerMessage, kwTemperature) THEN
        IF includes(lowerMessage, kwAnomaly) \/ includes(lowerMessage, kwUnusual) THEN
            temperatureAnomalyResponse
        ELSE IF includes(lowerMessage, kwDepth) \/ includes(lowerMessage, kwProfile) THEN
            temperatureDepthProfileResponse
        ELSE IF includes(lowerMessage, kwTrend) THEN
            temperatureTrendResponse
        ELSE
            temperatureResponse(env)
    ELSE IF includes(lowerMessage, kwCurrent) \/ includes(lowerMessage, kwVelocity) THEN
        currentResponse
    ELSE IF includes(lowerMessage, kwAtlantic) THEN
        atlanticResponse
    ELSE IF includes(lowerMessage, kwPacific) THEN
        pacificResponse
    ELSE
        defaultResponse

\* The two region tests moved in front of the temperature test.
generateMockResponseRegionFirst(msg, env) ==
    LET lowerMessage == toLowerCase(msg) IN
    IF includes(lowerMessage, kwAtlantic) THEN
        atlanticResponse
    ELSE IF includes(lowerMessage, kwPacific) THEN
        pacificResponse
    ELSE IF includes(lowerMessage, kwTemperature) THEN
        IF includes(lowerMessage, kwAnomaly) \/ includes(lowerMessage, kwUnusual) THEN
            temperatureAnomalyResponse
        ELSE IF includes(lowerMessage, kwDepth) \/ includes(lowerMessage, kwProfile) THEN
            temperatureDepthProfileResponse
        ELSE IF includes(lowerMessage, kwTrend) THEN
            temperatureTrendResponse
        ELSE
            temperatureResponse(env)
    ELSE IF includes(lowerMessage, kwSalinity) THEN
        salinityResponse
    ELSE IF includes(lowerMessage, kwCurrent) \/ includes(lowerMessage, kwVelocity) THEN
        currentResponse
    ELSE
        defaultResponse

\* The salinity branch shifting its mean by the first draw of the call.
generateMockResponseJitteredSalinity(msg, env) ==
    LET lowerMessage == toLowerCase(msg) IN
    IF includes(lowerMessage, kwTemperature) THEN
        IF includes(lowerMessage, kwAnomaly) \/ includes(lowerMessage, kwUnusual) THEN
            temperatureAnomalyResponse
        ELSE IF includes(lowerMessage, kwDepth) \/ includes(lowerMessage, kwProfile) THEN
            temperatureDepthProfileResponse
        ELSE IF includes(lowerMessage, kwTrend) THEN
            temperatureTrendResponse
        ELSE
            temperatureResponse(env)
    ELSE IF includes(lowerMessage, kwSalinity) THEN
        [ salinityResponse EXCEPT !.data.statistics.mean = 35200 + env.rand[1] ]
    ELSE IF includes(lowerMessage, kwCurrent) \/ includes(lowerMessage, kwVelocity) THEN
        currentResponse
    ELSE IF includes(lowerMessage, kwAtlantic) THEN
        atlanticResponse
    ELSE IF includes(lowerMessage, kwPacific) THEN
        pacificResponse
    ELSE
        defaultResponse

\* The final else left out: a message with no keyword reaches no return.
generateMockResponseNoDefault(msg, env) ==
    LET lowerMessage == toLowerCase(msg) IN
    IF includes(lowerMessage, kwTemperature) THEN
        IF includes(lowerMessage, kwAnomaly) \/ includes(lowerMessage, kwUnusual) THEN
            temperatureAnomalyResponse
        ELSE IF includes(lowerMessage, kwDepth) \/ includes(lowerMessage, kwProfile) THEN
            temperatureDepthProfileResponse
        ELSE IF includes(lowerMessage, kwTrend) THEN
            temperatureTrendResponse
        ELSE
            temperatureResponse(env)
    ELSE IF includes(lowerMessage, kwSalinity) THEN
        salinityResponse
    ELSE IF includes(lowerMessage, kwCurrent) \/ includes(lowerMessage, kwVelocity) THEN
        currentResponse
    ELSE IF includes(lowerMessage, kwAtlantic) THEN
        atlanticResponse
    ELSE IF includes(lowerMessage, kwPacific) THEN
        pacificResponse
    ELSE
        Undefined

\* The dispatch: the first test that succeeds on the lower-cased message
\* decides the document returned.
generateMockResponse(msg, env) ==
    LET lowerMessage == toLowerCase(msg) IN
    IF includes(lowerMessage, kwTemperature) THEN
        IF includes(lowerMessage, kwAnomaly) \/ includes(lowerMessage, kwUnusual) THEN
            temperatureAnomalyResponse
        ELSE IF includes(lowerMessage, kwDepth) \/ includes(lowerMessage, kwProfile) THEN
            temperatureDepthProfileResponse
        ELSE IF includes(lowerMessage, kwTrend) THEN
            temperatureTrendResponse
        ELSE
            temperatureResponse(env)
    ELSE IF includes(lowerMessage, kwSalinity) THEN
        salinityResponse
    ELSE IF includes(lowerMessage, kwCurrent) \/ includes(lowerMessage, kwVelocity) THEN
        currentResponse
    ELSE IF includes(lowerMessage, kwAtlantic) THEN
        atlanticResponse
    ELSE IF includes(lowerMessage, kwPacific) THEN
        pacificResponse
    ELSE
        defaultResponse

(***************************************************************************)
(* Inputs of the engine                                                    *)
(***************************************************************************)

\* The eleven keywords, in the order generateMockResponse tests them.
Keywords ==
    << kwTemperature, kwAnomaly, kwUnusual, kwDepth, kwProfile, kwTrend,
       kwSalinity, kwCurrent, kwVelocity, kwAtlantic, kwPacific >>

KeywordIds == 1..Len(Keywords)

\* The largest number of keywords in a text that is also tried with the other
\* separators and in reverse keyword order.
MaxKeywords == 2

\* The largest stride of the cyclic random streams.
MaxStride == 1

\* What stands before each keyword of a built text: a blank, nothing, a
\* prefix that makes the keyword the tail of a longer word, a non-ASCII letter.
Separators == { <<" ">>, <<>>, <<"d","e">>, <<"é"," ">> }

RECURSIVE JoinFrom(_, _, _, _)
\* sep and keyword i for each i of K, for i = from, from + step, ... within KeywordIds
JoinFrom(K, sep, from, step) ==
    IF from \notin KeywordIds THEN <<>>
    ELSE (IF from \in K THEN sep \o Keywords[from] ELSE <<>>)
         \o JoinFrom(K, sep, from + step, step)

BuildText(K, sep, reversed) ==
    IF reversed THEN JoinFrom(K, sep, Len(Keywords), -1) ELSE JoinFrom(K, sep, 1, 1)

\* The example messages of the specification.
ExampleTexts ==
    { <<>>,
      <<" "," "," ">>,
      <<"h","e","l","l","o">>,
      <<"d","e","c","u","r","r","e","n","t">>,
      <<"S","h","o","w"," ","t","e","m","p","e","r","a","t","u","r","e"," ","a","n","o","m","a","l","y">>,
      <<"t","e","m","p","e","r","a","t","u","r","e"," ","d","e","p","t","h"," ","p","r","o","f","i","l","e">>,
      <<"T","E","M","P","E","R","A","T","U","R","E"," ","t","r","e","n","d">>,
      <<"t","e","m","p","e","r","a","t","u","r","e"," ","T","R","E","N","D">>,
      <<"t","e","m","p","e","r","a","t","u","r","e">>,
      <<"p","a","c","i","f","i","c"," ","t","e","m","p","e","r","a","t","u","r","e"," ","t","r","e","n","d">>,
      <<"t","e","m","p","e","r","a","t","u","r"," ","e">> }

\* Every combination of keywords present or absent, blank-separated.
CombinationTexts == { BuildText(K, <<" ">>, FALSE) : K \in SUBSET KeywordIds }

\* The combinations of at most MaxKeywords keywords, with every separator and
\* in both orders.
VariantTexts ==
    { BuildText(K, sep, rev) :
        K \in { J \in SUBSET KeywordIds : Cardinality(J) <= MaxKeywords },
        sep \in Separators, rev \in BOOLEAN }

Texts == CombinationTexts \cup VariantTexts \cup ExampleTexts

\* The capital of each small letter: UpperToLower inverted.
LowerToUpper ==
    "a" :> "A" @@ "b" :> "B" @@ "c" :> "C" @@ "d" :> "D" @@ "e" :> "E" @@ "f" :> "F"
    @@ "g" :> "G" @@ "h" :> "H" @@ "i" :> "I" @@ "j" :> "J" @@ "k" :> "K" @@ "l" :> "L"
    @@ "m" :> "M" @@ "n" :> "N" @@ "o" :> "O" @@ "p" :> "P" @@ "q" :> "Q" @@ "r" :> "R"
    @@ "s" :> "S" @@ "t" :> "T" @@ "u" :> "U" @@ "v" :> "V" @@ "w" :> "W" @@ "x" :> "X"
    @@ "y" :> "Y" @@ "z" :> "Z"

\* The ways a typed text is re-cased before it is sent: left as typed, all
\* capitals, capitals at the odd positions, the case of every letter inverted.
Casings == { "asis", "upper", "alternate", "swap" }

ReCase(s, casing) ==
    [i \in 1..Len(s) |->
        IF casing = "upper" \/ (casing = "alternate" /\ i % 2 = 1)
        THEN (IF s[i] \in DOMAIN LowerToUpper THEN LowerToUpper[s[i]] ELSE s[i])
        ELSE IF casing = "swap"
        THEN (IF s[i] \in DOMAIN LowerToUpper THEN LowerToUpper[s[i]]
              ELSE IF s[i] \in DOMAIN UpperToLower THEN UpperToLower[s[i]]
              ELSE s[i])
        ELSE s[i]]

\* The draws Math.random() can return, in hundredths.  Their number does not
\* divide SeriesLength, so a cycled stream gives the second series of a call
\* other draws than the first.
RandGrid == << 0, 10, 25, 50, 75, 90, 99 >>

\* A random stream: draw k is RandGrid at offset + stride * k, cyclically.
RandomStream(offset, stride) ==
    [k \in 1..(2 * SeriesLength) |-> RandGrid[((offset + stride * k) % Len(RandGrid)) + 1]]

\* The streams a call may read: the smallest draw throughout, the largest draw
\* throughout, and the grid cycled through with each stride.
Envs ==
    { [rand |-> RandomStream(0, 0), clock |-> NoonClock],
      [rand |-> RandomStream(Len(RandGrid) - 1, 0), clock |-> NoonClock] }
    \cup { [rand |-> RandomStream(0, stride), clock |-> NoonClock] : stride \in 1..MaxStride }

\* Whether generateMockResponse(msg, _) reaches the one branch that calls
\* Math.random(); on every other branch the stream is not read.
ReadsRandom(msg) ==
    LET lowerMessage == toLowerCase(msg) IN
    /\ includes(lowerMessage, kwTemperature)
    /\ ~(includes(lowerMessage, kwAnomaly) \/ includes(lowerMessage, kwUnusual))
    /\ ~(includes(lowerMessage, kwDepth) \/ includes(lowerMessage, kwProfile))
    /\ ~includes(lowerMessage, kwTrend)

EnvsFor(msg) ==
    IF ReadsRandom(msg) THEN Envs ELSE { [rand |-> RandomStream(0, 0), clock |-> NoonClock] }

\* No document: nothing returned yet.
NoDoc == [none |-> TRUE]

(***************************************************************************)
(* The callers of chatService.sendMessage.  call[c].posts counts the POSTs  *)
(* the call of caller c has issued and call[c].engineCalls the times it    *)
(* has run generateMockResponse.                                           *)
(***************************************************************************)

\* The callers that may have a sendMessage call in progress at the same time.
MaxCallers == 2

Callers == 1..MaxCallers

\* A caller with no call in progress.
IdleCall ==
    [ pc |-> "idle", arg |-> <<>>, posts |-> 0, engineCalls |-> 0,
      outcome |-> "none", value |-> NoDoc ]

\* A caller with no getChatHistory call in progress.
IdleHistory ==
    [ pc |-> "idle", user_id |-> "", gets |-> 0, outcome |-> "none",
      response |-> NoDoc, value |-> NoDoc ]

\* A JavaScript value that is not undefined, as the value of an optional
\* field or argument; Undefined stands for the absent one.
Defined(v) == [value |-> v]

\* ChatInterface lines 49-62: the greeting the messages state starts with.
\* The timestamp field of a message is not among the fields modelled here;
\* the bullet characters of the text are written as "*".
Greeting ==
    [ id |-> 1,
      type |-> "bot",
      content |-> Defined("Hello! I'm your ARGO Ocean Data assistant. I can help you analyze ocean temperature, salinity, depth profiles, and currents from global ARGO float networks. Try asking me questions like:\n\n* 'Show me temperature data for the North Atlantic in the last month'\n* 'What's the salinity trend near Australia?'\n* 'Display depth profiles for the Mediterranean'\n* 'Are there any temperature anomalies in the Arctic Ocean?'"),
      data |-> Undefined,
      visualizations |-> Undefined,
      suggestions |-> Defined(<< "Show North Atlantic temperature trends",
                                 "Analyze Pacific Ocean salinity data",
                                 "Display global temperature anomalies",
                                 "Compare Mediterranean vs Atlantic data" >>) ]

\* The JavaScript value null: a 2xx response whose body is the JSON text
\* null, an absent localStorage entry, the user state before a login.
Null == [null |-> TRUE]

\* No history call in progress.
InitHistory == history = [c \in Callers |-> IdleHistory]

\* ChatInterface lines 49-64, as mounted.
InitChatInterface ==
    /\ messages = << Greeting >>
    /\ inputValue = <<>>
    /\ isLoading = FALSE
    /\ handler = [c \in Callers |-> "none"]
    /\ view = [ inputValue |-> <<>>, isLoading |-> FALSE ]
    /\ now = 1000

\* No AuthService.login call in progress.
IdleAuthCall == [ pc |-> "idle", value |-> NoDoc ]

\* AuthProvider lines 25-26: the start-up check has not run yet.
IdleCheckAuth == [ pc |-> "mounted", isValid |-> Undefined, userData |-> NoDoc ]

\* AuthProvider lines 46-54: no login call in progress.
IdleLogin == [ pc |-> "idle", caller |-> "none", before |-> NoDoc, value |-> NoDoc ]

\* RegisterForm lines 20-49: no handleSubmit invocation in progress.
IdleHandleSubmit ==
    [ pc |-> "idle", userData |-> NoDoc, confirmPassword |-> NoDoc,
      sent |-> <<>>, registered |-> FALSE ]

\* authService.ts lines 31-35, 105, AuthContext.tsx lines 22-23 and
\* part_004 lines 10-17: the module-level AuthService built on what
\* localStorage holds, and the AuthProvider and the RegisterForm as mounted.
InitAuth(stored) ==
    /\ localStorage \in stored
    /\ token = localStorage
    /\ authCall = [c \in Callers |-> IdleAuthCall]
    /\ user = Null
    /\ loading = TRUE
    /\ checkAuth = IdleCheckAuth
    /\ login = IdleLogin
    /\ registerForm = [ userData |-> [email |-> "", name |-> "", password |-> <<>>],
                        confirmPassword |-> <<>>,
                        loading |-> FALSE,
                        error |-> "" ]
    /\ handleSubmit = IdleHandleSubmit

(***************************************************************************)
(* The engine on its own.  Under SpecEngine a text is typed and            *)
(* generateMockResponse is called once, on the text or on a re-casing of   *)
(* it.  Under SpecRecall the engine is called again and again on           *)
(* re-casings of the typed text, and the call before the latest one is     *)
(* remembered.                                                             *)
(***************************************************************************)

InitTyped(typed) ==
    /\ call = [c \in Callers |-> IdleCall]
    /\ text \in typed
    /\ called = FALSE
    /\ message = <<>>
    /\ doc = NoDoc
    /\ prevMessage = <<>>
    /\ prevDoc = NoDoc
    /\ draws = <<>>
    /\ prevDraws = <<>>
    /\ clock = NoonClock
    /\ heap = <<>>
    /\ ref = 0
    /\ InitHistory
    /\ InitChatInterface
    /\ InitAuth({Null})

InitEngine == InitTyped(Texts)

InitRecall == InitTyped(VariantTexts \cup ExampleTexts)

\* The first call.
CallEngine(casing) ==
    /\ ~called
    /\ called' = TRUE
    /\ message' = ReCase(text, casing)
    /\ \E env \in EnvsFor(message') :
          /\ draws' = env.rand
          /\ clock' = env.clock
          /\ doc' = generateMockResponse(message', env)
    /\ UNCHANGED <<text, prevMessage, prevDoc, prevDraws, heap, ref, call, history, chatVars, authVars>>

\* A later call.
CallEngineAgain(casing) ==
    /\ called
    /\ message' = ReCase(text, casing)
    /\ \E env \in EnvsFor(message') :
          /\ draws' = env.rand
          /\ clock' = env.clock
          /\ doc' = generateMockResponse(message', env)
    /\ prevMessage' = message
    /\ prevDoc' = doc
    /\ prevDraws' = draws
    /\ UNCHANGED <<text, called, heap, ref, call, history, chatVars, authVars>>

NextEngine == \E casing \in Casings : CallEngine(casing)

NextRecall ==
    \E casing \in Casings :
        \/ CallEngine(casing)
        \/ CallEngineAgain(casing)

SpecEngine == InitEngine /\ [][NextEngine]_vars

SpecRecall == InitRecall /\ [][NextRecall]_vars

(***************************************************************************)
(* The engine under every random source.  Under SpecDraws a text is typed   *)
(* and generateMockResponse is called again and again on that text, each   *)
(* call with any of the streams of draws, whether or not its branch reads   *)
(* them.                                                                    *)
(***************************************************************************)

\* The texts typed under SpecDraws: up to MaxKeywords keywords joined by
\* blanks, and the examples.
DrawTexts ==
    { BuildText(K, <<" ">>, FALSE) :
        K \in { J \in SUBSET KeywordIds : Cardinality(J) <= MaxKeywords } }
    \cup ExampleTexts

InitDraws == InitTyped(DrawTexts)

\* The first call.
CallWithDraws(env) ==
    /\ ~called
    /\ called' = TRUE
    /\ message' = text
    /\ draws' = env.rand
    /\ clock' = env.clock
    /\ doc' = generateMockResponse(message', env)
    /\ UNCHANGED <<text, prevMessage, prevDoc, prevDraws, heap, ref, call, history, chatVars, authVars>>

\* A later call.
CallAgainWithDraws(env) ==
    /\ called
    /\ message' = text
    /\ draws' = env.rand
    /\ clock' = env.clock
    /\ doc' = generateMockResponse(message', env)
    /\ prevMessage' = message
    /\ prevDoc' = doc
    /\ prevDraws' = draws
    /\ UNCHANGED <<text, called, heap, ref, call, history, chatVars, authVars>>

NextDraws ==
    \E env \in Envs :
        \/ CallWithDraws(env)
        \/ CallAgainWithDraws(env)

SpecDraws == InitDraws /\ [][NextDraws]_vars

(***************************************************************************)
(* The engine under every clock.  Under SpecDates a text that reaches the   *)
(* generic temperature branch is typed and generateMockResponse is called   *)
(* once, in any of the zones, at any of the hours, the local clock passing  *)
(* to the next hour within the call or not.                                 *)
(***************************************************************************)

\* The time zones of the runtime: UTC; UTC+9 without daylight saving time;
\* UTC+1 and UTC-5 with the clocks gone forward ten days before the call.
Zones ==
    { [standard |-> 0, dst |-> FALSE, dstStart |-> 0],
      [standard |-> 9, dst |-> FALSE, dstStart |-> 0],
      [standard |-> 1, dst |-> TRUE, dstStart |-> 20170],
      [standard |-> -5, dst |-> TRUE, dstStart |-> 20170] }

\* The clocks at the start of a call.
Clocks ==
    { [zone |-> zone, day |-> 20180, hour |-> hour, rollover |-> rollover] :
        zone \in Zones, hour \in {1, 12, 23}, rollover \in {0, 15} }

ClockEnvs == { [rand |-> env.rand, clock |-> started] : env \in Envs, started \in Clocks }

\* The texts typed under SpecDates.
DateTexts == { t \in DrawTexts : ReadsRandom(t) }

InitDates == InitTyped(DateTexts)

\* The call.
CallAt(env) ==
    /\ ~called
    /\ called' = TRUE
    /\ message' = text
    /\ draws' = env.rand
    /\ clock' = env.clock
    /\ doc' = generateMockResponse(message', env)
    /\ UNCHANGED <<text, prevMessage, prevDoc, prevDraws, heap, ref, call, history, chatVars, authVars>>

NextDates == \E env \in ClockEnvs : CallAt(env)

SpecDates == InitDates /\ [][NextDates]_vars

(***************************************************************************)
(* The engine and the objects it returns.  Under SpecFresh every call       *)
(* returns the address of a document on the heap, and whoever holds an      *)
(* address may write to the document there between the calls.  An object    *)
(* literal evaluated by a call is a new object, with new arrays and new     *)
(* nested objects: the document and all it holds is one cell of the heap.   *)
(***************************************************************************)

\* The largest number of calls in one behaviour.
MaxCalls == 2

\* A memoised document: the first document made is returned again.
AllocateCached(h, d) ==
    IF h = <<>> THEN [heap |-> <<d>>, addr |-> 1] ELSE [heap |-> h, addr |-> 1]

\* The object literal d evaluated: a new object, at a new address.
Allocate(h, d) == [heap |-> Append(h, d), addr |-> Len(h) + 1]

\* What a holder of a document may do to it: overwrite its message, empty
\* its data, empty its visualizations array.
Mutations == { "message", "data", "visualizations" }

Mutated(d, mutation) ==
    CASE mutation = "message" -> [d EXCEPT !.message = "tampered"]
      [] mutation = "data" -> [d EXCEPT !.data = [tampered |-> TRUE]]
      [] mutation = "visualizations" -> [d EXCEPT !.visualizations = <<>>]

\* The texts typed under SpecFresh.
FreshTexts ==
    { <<>>,
      <<"t","e","m","p","e","r","a","t","u","r","e">>,
      <<"t","e","m","p","e","r","a","t","u","r","e"," ","T","R","E","N","D">>,
      <<"s","a","l","i","n","i","t","y">>,
      <<"d","e","c","u","r","r","e","n","t">> }

InitFresh == InitTyped(FreshTexts)

\* A call: the document is made at a new address and the address returned.
CallFresh(env) ==
    /\ Len(heap) < MaxCalls
    /\ LET made == Allocate(heap, generateMockResponse(text, env)) IN
         /\ heap' = made.heap
         /\ ref' = made.addr
         /\ doc' = made.heap[made.addr]
    /\ called' = TRUE
    /\ message' = text
    /\ draws' = env.rand
    /\ clock' = env.clock
    /\ prevMessage' = message
    /\ prevDoc' = doc
    /\ prevDraws' = draws
    /\ UNCHANGED <<text, call, history, chatVars, authVars>>

\* A holder of the document at address a writes to it.
Mutate(a, mutation) ==
    /\ a \in 1..Len(heap)
    /\ heap' = [heap EXCEPT ![a] = Mutated(heap[a], mutation)]
    /\ UNCHANGED <<text, called, message, doc, prevMessage, prevDoc, draws, prevDraws,
                   clock, ref, call, history, chatVars, authVars>>

NextFresh ==
    \/ \E env \in EnvsFor(text) : CallFresh(env)
    \/ \E a \in 1..MaxCalls, mutation \in Mutations : Mutate(a, mutation)

SpecFresh == InitFresh /\ [][NextFresh]_vars

(***************************************************************************)
(* chatService.sendMessage.  An async function with one await: the call    *)
(* posts the message and suspends; it resumes when axios settles the       *)
(* request, in the try block on a 2xx response and in the catch block      *)
(* otherwise.  Callers run concurrently between the two steps.             *)
(***************************************************************************)

\* The messages sent through the service.
ChatTexts ==
    { <<>>,
      <<"t","e","m","p","e","r","a","t","u","r","e">>,
      <<"T","E","M","P","E","R","A","T","U","R","E"," ","t","r","e","n","d">>,
      <<"s","a","l","i","n","i","t","y">> }

\* What response.data can be when the backend answers with a 2xx status.
LiveBodies ==
    { [ message |-> "Live analysis of the ARGO archive.",
        data |-> [source |-> "backend"],
        visualizations |-> <<>>,
        suggestions |-> <<"Refine the query">> ],
      [ detail |-> "accepted" ],
      Null }

\* How axios.post rejects: the 30000 ms timeout, no connection, a status
\* outside 2xx.
PostFailures == { "timeout", "network", "status" }

\* Lines 6-16: the call starts and issues its POST.
SendMessage(c, msg) ==
    /\ call[c].pc = "idle"
    /\ call' = [call EXCEPT ![c] =
                  [ pc |-> "awaiting", arg |-> msg, posts |-> 1, engineCalls |-> 0,
                    outcome |-> "none", value |-> NoDoc ]]
    /\ UNCHANGED <<text, called, message, doc, prevMessage, prevDoc, draws, prevDraws,
                   clock, heap, ref, history, chatVars, authVars>>

\* Line 17: the POST resolved; the promise is fulfilled with response.data.
PostSucceeds(c, body) ==
    /\ call[c].pc = "awaiting"
    /\ call' = [call EXCEPT ![c].pc = "fulfilled",
                            ![c].outcome = "ok",
                            ![c].value = body]
    /\ UNCHANGED <<text, called, message, doc, prevMessage, prevDoc, draws, prevDraws,
                   clock, heap, ref, history, chatVars, authVars>>

\* The catch block logging the error and throwing it again.
PostFailsRethrow(c, failure) ==
    /\ call[c].pc = "awaiting"
    /\ call' = [call EXCEPT ![c].pc = "rejected",
                            ![c].outcome = failure,
                            ![c].value = [error |-> failure]]
    /\ UNCHANGED <<text, called, message, doc, prevMessage, prevDoc, draws, prevDraws,
                   clock, heap, ref, history, chatVars, authVars>>

\* The catch block posting the message a second time before giving up.
PostFailsRetry(c, failure) ==
    /\ call[c].pc = "awaiting"
    /\ \E env \in EnvsFor(call[c].arg) :
         call' = IF call[c].posts < 2
                 THEN [call EXCEPT ![c].posts = call[c].posts + 1]
                 ELSE [call EXCEPT ![c].pc = "fulfilled",
                                   ![c].outcome = failure,
                                   ![c].engineCalls = call[c].engineCalls + 1,
                                   ![c].value = generateMockResponse(call[c].arg, env)]
    /\ UNCHANGED <<text, called, message, doc, prevMessage, prevDoc, draws, prevDraws,
                   clock, heap, ref, history, chatVars, authVars>>

\* Lines 18-24: the POST rejected; the catch block runs the engine on the
\* same message and the promise is fulfilled with its document.
PostFails(c, failure) ==
    /\ call[c].pc = "awaiting"
    /\ \E env \in EnvsFor(call[c].arg) :
         call' = [call EXCEPT ![c].pc = "fulfilled",
                              ![c].outcome = failure,
                              ![c].engineCalls = call[c].engineCalls + 1,
                              ![c].value = generateMockResponse(call[c].arg, env)]
    /\ UNCHANGED <<text, called, message, doc, prevMessage, prevDoc, draws, prevDraws,
                   clock, heap, ref, history, chatVars, authVars>>

\* The caller has taken the settled value and may call again.
Settle(c) ==
    /\ call[c].pc \in {"fulfilled", "rejected"}
    /\ call' = [call EXCEPT ![c] = IdleCall]
    /\ UNCHANGED <<text, called, message, doc, prevMessage, prevDoc, draws, prevDraws,
                   clock, heap, ref, history, chatVars, authVars>>

Init ==
    /\ call = [c \in Callers |-> IdleCall]
    /\ text = <<>>
    /\ called = FALSE
    /\ message = <<>>
    /\ doc = NoDoc
    /\ prevMessage = <<>>
    /\ prevDoc = NoDoc
    /\ draws = <<>>
    /\ prevDraws = <<>>
    /\ clock = NoonClock
    /\ heap = <<>>
    /\ ref = 0
    /\ InitHistory
    /\ InitChatInterface
    /\ InitAuth({Null})

Next ==
    \E c \in Callers :
        \/ \E msg \in ChatTexts : SendMessage(c, msg)
        \/ \E body \in LiveBodies : PostSucceeds(c, body)
        \/ \E failure \in PostFailures : PostFails(c, failure)
        \/ Settle(c)

Spec == Init /\ [][Next]_vars

(***************************************************************************)
(* chatService.getChatHistory.  An async function with one await, like     *)
(* sendMessage: the call issues its GET and suspends, and resumes in the    *)
(* try block on a 2xx response and in the catch block otherwise.            *)
(***************************************************************************)

engineVars ==
    <<text, called, message, doc, prevMessage, prevDoc, draws, prevDraws, clock, heap, ref>>

\* The userId arguments of the calls: none, the empty string, a user's id.
HistoryUserIds == { Undefined, Defined(""), Defined("alice") }

\* What response.data can be when the backend answers with a 2xx status.
HistoryBodies ==
    { [ messages |-> <<>> ],
      [ messages |-> << [role |-> "user", content |-> "Show salinity"],
                        [role |-> "assistant", content |-> "Salinity profile ready."] >> ],
      [ detail |-> "no history" ] }

\* How axios.get rejects: no connection, a status outside 2xx.  The request
\* sets no timeout.
GetFailures == { "network", "status" }

\* Line 30: userId || 'demo'.
UserIdOrDemo(userId) ==
    IF userId = Undefined THEN "demo"
    ELSE IF userId.value = "" THEN "demo"
    ELSE userId.value

\* Lines 27-31: the call starts and issues its GET.
GetChatHistory(c, userId) ==
    /\ history[c].pc = "idle"
    /\ history' = [history EXCEPT ![c] =
                     [ pc |-> "awaiting", user_id |-> UserIdOrDemo(userId), gets |-> 1,
                       outcome |-> "none", response |-> NoDoc, value |-> NoDoc ]]
    /\ UNCHANGED <<engineVars, call, chatVars, authVars>>

\* Line 32: the GET resolved; the promise is fulfilled with response.data.
HistorySucceeds(c, body) ==
    /\ history[c].pc = "awaiting"
    /\ LET response == [data |-> body, status |-> 200] IN
       history' = [history EXCEPT ![c].pc = "fulfilled",
                                  ![c].outcome = "ok",
                                  ![c].response = response,
                                  ![c].value = response.data]
    /\ UNCHANGED <<engineVars, call, chatVars, authVars>>

\* The catch block logging the error and throwing it again.
HistoryFailsRethrow(c, failure) ==
    /\ history[c].pc = "awaiting"
    /\ history' = [history EXCEPT ![c].pc = "rejected",
                                  ![c].outcome = failure,
                                  ![c].value = [error |-> failure]]
    /\ UNCHANGED <<engineVars, call, chatVars, authVars>>

\* Lines 33-36: the GET rejected; the catch block logs the error and the
\* promise is fulfilled with { messages: [] }.
HistoryFails(c, failure) ==
    /\ history[c].pc = "awaiting"
    /\ history' = [history EXCEPT ![c].pc = "fulfilled",
                                  ![c].outcome = failure,
                                  ![c].value = [messages |-> <<>>]]
    /\ UNCHANGED <<engineVars, call, chatVars, authVars>>

\* The caller has taken the settled value and may call again.
HistorySettle(c) ==
    /\ history[c].pc \in {"fulfilled", "rejected"}
    /\ history' = [history EXCEPT ![c] = IdleHistory]
    /\ UNCHANGED <<engineVars, call, chatVars, authVars>>

NextHistory ==
    \E c \in Callers :
        \/ \E userId \in HistoryUserIds : GetChatHistory(c, userId)
        \/ \E body \in HistoryBodies : HistorySucceeds(c, body)
        \/ \E failure \in GetFailures : HistoryFails(c, failure)
        \/ HistorySettle(c)

SpecHistory == Init /\ [][NextHistory]_vars

(***************************************************************************)
(* ChatInterface.  handleSendMessage is an async function with one await:  *)
(* up to the await it runs within the click or key event, and it resumes    *)
(* when the sendMessage call it awaits has settled.  A handler reads the    *)
(* state through the closure of the render it belongs to (view): updates    *)
(* made within an event are rendered before the next event, updates made    *)
(* after the await are rendered by a later Render step.                     *)
(***************************************************************************)

\* The largest number of sends accepted in one behaviour.
MaxSends == 2

\* What the input field can be set to: by typing (line 306), by a click on
\* a suggestion (line 173) or by speech recognition (line 87).
ChatInputs ==
    { <<>>,
      <<" ", " ">>,
      <<"s","a","l","i","n","i","t","y">>,
      <<"t","e","m","p","e","r","a","t","u","r","e">> }

\* String.prototype.trim, on texts whose only white space is the blank.
RECURSIVE trim(_)
trim(s) ==
    IF s = <<>> THEN s
    ELSE IF s[1] = " " THEN trim(Tail(s))
    ELSE IF s[Len(s)] = " " THEN trim(SubSeq(s, 1, Len(s) - 1))
    ELSE s

\* r.f for an object r: undefined when r has no property f.
Field(r, f) == IF f \in DOMAIN r THEN Defined(r[f]) ELSE Undefined

\* Lines 105-110.  An id is kept as the number its string spells.
userMessage(input, ms) ==
    [ id |-> ms,
      type |-> "user",
      content |-> Defined(input),
      data |-> Undefined,
      visualizations |-> Undefined,
      suggestions |-> Undefined ]

\* Lines 119-127.
botMessage(response, ms) ==
    [ id |-> ms + 1,
      type |-> "bot",
      content |-> Field(response, "message"),
      data |-> Field(response, "data"),
      visualizations |-> Field(response, "visualizations"),
      suggestions |-> Field(response, "suggestions") ]

\* Lines 131-142.
errorMessage(ms) ==
    [ id |-> ms + 1,
      type |-> "bot",
      content |-> Defined("Sorry, I encountered an error processing your request. Please try again or rephrase your question."),
      data |-> Undefined,
      visualizations |-> Undefined,
      suggestions |-> Defined(<< "Try a simpler query",
                                 "Check your connection",
                                 "Ask about temperature data",
                                 "Request help with ocean analysis" >>) ]

\* What the component renders from its state: the values the handlers of
\* that render close over.
Rendered == [ inputValue |-> inputValue, isLoading |-> isLoading ]

\* Lines 87, 173, 306: setInputValue, rendered before the next event.
SetInputValue(input) ==
    /\ inputValue' = input
    /\ view' = [view EXCEPT !.inputValue = input]
    /\ UNCHANGED <<engineVars, call, history, messages, isLoading, handler, now, authVars>>

\* handleSendMessage without the test of isLoading.
HandleSendMessageUnguarded(c) ==
    /\ handler[c] # "awaiting"
    /\ \A d \in Callers : d < c => handler[d] = "awaiting"
    /\ Len(messages) < 1 + 2 * MaxSends
    /\ IF trim(view.inputValue) = <<>>
       THEN UNCHANGED <<messages, inputValue, isLoading, handler, call, view>>
       ELSE /\ messages' = Append(messages, userMessage(view.inputValue, now))
            /\ inputValue' = <<>>
            /\ isLoading' = TRUE
            /\ view' = [ inputValue |-> <<>>, isLoading |-> TRUE ]
            /\ call' = [call EXCEPT ![c] =
                          [ pc |-> "awaiting", arg |-> view.inputValue, posts |-> 1,
                            engineCalls |-> 0, outcome |-> "none", value |-> NoDoc ]]
            /\ handler' = [handler EXCEPT ![c] = "awaiting"]
    /\ UNCHANGED <<engineVars, history, now, authVars>>

\* Lines 102-117, up to the await, run by a click or an Enter key on the
\* handler of the latest render: the early return, or the user message
\* appended, the input cleared, isLoading set and the sendMessage call c
\* started (chatService lines 6-16) on the text the handler closed over.
\* The updates are rendered before the next event.  The call is kept in the
\* first slot that no invocation is awaiting.
HandleSendMessage(c) ==
    /\ handler[c] # "awaiting"
    /\ \A d \in Callers : d < c => handler[d] = "awaiting"
    /\ Len(messages) < 1 + 2 * MaxSends
    /\ IF trim(view.inputValue) = <<>> \/ view.isLoading
       THEN UNCHANGED <<messages, inputValue, isLoading, handler, call, view>>
       ELSE /\ messages' = Append(messages, userMessage(view.inputValue, now))
            /\ inputValue' = <<>>
            /\ isLoading' = TRUE
            /\ view' = [ inputValue |-> <<>>, isLoading |-> TRUE ]
            /\ call' = [call EXCEPT ![c] =
                          [ pc |-> "awaiting", arg |-> view.inputValue, posts |-> 1,
                            engineCalls |-> 0, outcome |-> "none", value |-> NoDoc ]]
            /\ handler' = [handler EXCEPT ![c] = "awaiting"]
    /\ UNCHANGED <<engineVars, history, now, authVars>>

\* setIsLoading(false) moved into the try block: the catch path leaves
\* isLoading set.
ResumeHandleSendMessageNoReset(c) ==
    /\ handler[c] = "awaiting"
    /\ call[c].pc \in {"fulfilled", "rejected"}
    /\ IF call[c].pc = "fulfilled" /\ call[c].value # Null
       THEN /\ messages' = Append(messages, botMessage(call[c].value, now))
            /\ isLoading' = FALSE
       ELSE /\ messages' = Append(messages, errorMessage(now))
            /\ isLoading' = isLoading
    /\ handler' = [handler EXCEPT ![c] = "done"]
    /\ UNCHANGED <<engineVars, call, history, inputValue, view, now, authVars>>

\* Lines 117-147, from the await on: the bot message built from the
\* response and appended, or, when the call rejected or reading
\* response.message threw because the response is null, the error message
\* appended; then isLoading reset.  The updates are queued: the render
\* that shows them comes later.
ResumeHandleSendMessage(c) ==
    /\ handler[c] = "awaiting"
    /\ call[c].pc \in {"fulfilled", "rejected"}
    /\ messages' = IF call[c].pc = "fulfilled" /\ call[c].value # Null
                   THEN Append(messages, botMessage(call[c].value, now))
                   ELSE Append(messages, errorMessage(now))
    /\ isLoading' = FALSE
    /\ handler' = [handler EXCEPT ![c] = "done"]
    /\ UNCHANGED <<engineVars, call, history, inputValue, view, now, authVars>>

\* The component renders its state.
Render ==
    /\ view # Rendered
    /\ view' = Rendered
    /\ UNCHANGED <<engineVars, call, history, messages, inputValue, isLoading, handler, now, authVars>>

NextChat ==
    \/ \E input \in ChatInputs : SetInputValue(input)
    \/ Render
    \/ \E c \in Callers :
          \/ HandleSendMessage(c)
          \/ \E body \in LiveBodies : PostSucceeds(c, body)
          \/ \E failure \in PostFailures : PostFails(c, failure)
          \/ ResumeHandleSendMessage(c)

SpecChat == Init /\ [][NextChat]_vars

\* The POST of call c settles.
Settles(c) ==
    \/ \E body \in LiveBodies : PostSucceeds(c, body)
    \/ \E failure \in PostFailures : PostFails(c, failure)

\* Every POST settles, by its 30000 ms timeout at the latest (chatService
\* line 14), and a handler whose awaited call has settled resumes.
FairSpecChat ==
    /\ SpecChat
    /\ \A c \in Callers : WF_vars(Settles(c)) /\ WF_vars(ResumeHandleSendMessage(c))

\* How many milliseconds the clock advances in one behaviour.
MaxTicks == 2

\* Date.now() (lines 106, 120, 132): the clock passes to the next
\* millisecond between two events.
Tick ==
    /\ now < 1000 + MaxTicks
    /\ now' = now + 1
    /\ UNCHANGED <<engineVars, call, history, messages, inputValue, isLoading, handler, view, authVars>>

\* The ChatInterface with a running clock.
NextIds ==
    \/ Tick
    \/ NextChat

SpecIds == Init /\ [][NextIds]_vars

(***************************************************************************)
(* AuthService.  The module-level instance keeps the access token in its   *)
(* token field and in the 'access_token' entry of localStorage.  login is  *)
(* an async method with one await: the call posts the credentials and      *)
(* suspends, and resumes at line 48 on a 2xx response.  Under              *)
(* SpecAuthService the callers run login, setToken and logout in any order. *)
(***************************************************************************)

\* Everything outside the authentication code.
appVars == <<engineVars, call, history, chatVars>>

\* The states of AuthProvider and of RegisterForm.
providerVars == <<user, loading, checkAuth, login>>
formVars == <<registerForm, handleSubmit>>

\* The strings setToken is called with.
Tokens == { "", "t1", "t2" }

\* What response.data can be when /login answers with a 2xx status.
AuthBodies ==
    { [ access_token |-> "t1", token_type |-> "bearer" ],
      [ access_token |-> "t2", token_type |-> "bearer" ],
      [ detail |-> "accepted" ],
      Null }

\* What localStorage holds under 'access_token' when the page loads.
StoredTokens == { Null, Defined("t0") }

\* String(v): localStorage.setItem stores its value as a string (line 87).
toString(v) ==
    IF v = Undefined THEN "undefined"
    ELSE IF v = Null THEN "null"
    ELSE v.value

\* Line 95: !!this.token.
isAuthenticated == token # Null /\ token # Undefined /\ token # Defined("")

\* Lines 85-88.
setToken(v) ==
    /\ token' = v
    /\ localStorage' = Defined(toString(v))

\* Lines 80-83.
logout ==
    /\ token' = Null
    /\ localStorage' = Null

\* Lines 37-46: the call starts and posts the credentials.
AuthServiceLogin(c) ==
    /\ authCall[c].pc = "idle"
    /\ authCall' = [authCall EXCEPT ![c] = [ pc |-> "awaiting", value |-> NoDoc ]]
    /\ UNCHANGED <<appVars, token, localStorage, providerVars, formVars>>

\* Lines 48-50: the POST resolved.  Reading access_token of a null body
\* throws and the promise is rejected; otherwise the field, undefined when
\* the body has none, goes to setToken and the promise is fulfilled with
\* the body.
AuthServiceLoginResolves(c, body) ==
    /\ authCall[c].pc = "awaiting"
    /\ IF body = Null
       THEN /\ authCall' = [authCall EXCEPT ![c] =
                              [ pc |-> "rejected", value |-> [error |-> "TypeError"] ]]
            /\ UNCHANGED <<token, localStorage>>
       ELSE /\ authCall' = [authCall EXCEPT ![c] = [ pc |-> "fulfilled", value |-> body ]]
            /\ setToken(Field(body, "access_token"))
    /\ UNCHANGED <<appVars, providerVars, formVars>>

\* Line 42: the POST rejected, and so does the promise.
AuthServiceLoginRejects(c) ==
    /\ authCall[c].pc = "awaiting"
    /\ authCall' = [authCall EXCEPT ![c] =
                      [ pc |-> "rejected", value |-> [error |-> "status"] ]]
    /\ UNCHANGED <<appVars, token, localStorage, providerVars, formVars>>

\* The caller has taken the settled value and may call again.
AuthServiceLoginSettled(c) ==
    /\ authCall[c].pc \in {"fulfilled", "rejected"}
    /\ authCall' = [authCall EXCEPT ![c] = IdleAuthCall]
    /\ UNCHANGED <<appVars, token, localStorage, providerVars, formVars>>

\* A call of setToken.
SetToken(t) ==
    /\ setToken(Defined(t))
    /\ UNCHANGED <<appVars, authCall, providerVars, formVars>>

\* A call of logout.
Logout ==
    /\ logout
    /\ UNCHANGED <<appVars, authCall, providerVars, formVars>>

InitAuthService ==
    /\ call = [c \in Callers |-> IdleCall]
    /\ text = <<>>
    /\ called = FALSE
    /\ message = <<>>
    /\ doc = NoDoc
    /\ prevMessage = <<>>
    /\ prevDoc = NoDoc
    /\ draws = <<>>
    /\ prevDraws = <<>>
    /\ clock = NoonClock
    /\ heap = <<>>
    /\ ref = 0
    /\ InitHistory
    /\ InitChatInterface
    /\ InitAuth(StoredTokens)

NextAuthService ==
    \/ \E t \in Tokens : SetToken(t)
    \/ Logout
    \/ \E c \in Callers :
          \/ AuthServiceLogin(c)
          \/ \E body \in AuthBodies : AuthServiceLoginResolves(c, body)
          \/ AuthServiceLoginRejects(c)
          \/ AuthServiceLoginSettled(c)

SpecAuthService == InitAuthService /\ [][NextAuthService]_vars

(***************************************************************************)
(* AuthProvider.  The effect of lines 25-44 runs checkAuth once after the  *)
(* mount; login (lines 46-54) awaits authService.login and then            *)
(* authService.getCurrentUser; logout (lines 56-59) is synchronous.        *)
(* AppContent (App.tsx lines 10-26) shows the spinner while loading, the   *)
(* AuthPage, with the login and register forms, while user is null, and    *)
(* the Header, with the logout button, otherwise.  One login call of the   *)
(* context is in flight at a time.                                         *)
(***************************************************************************)

\* What response.data can be when /me answers with a 2xx status.
UserBodies ==
    { [ id |-> "u1", email |-> "a@b.c", name |-> "Ada", is_active |-> TRUE ],
      Null }

\* How a request rejects: a status outside 2xx whose body has a detail, one
\* whose body has none, or no response at all.
HttpErrors ==
    { [ response |-> [ data |-> [ detail |-> "Email already registered" ] ] ],
      [ response |-> [ data |-> [ message |-> "Internal Server Error" ] ] ],
      [ message |-> "Network Error" ] }

\* App.tsx lines 13-26: the AuthPage is on the screen.
AuthPageShown == ~loading /\ user = Null

\* AuthContext.tsx lines 26-27, 40: the effect calls checkAuth, which stops
\* at once when no token is held and sends the verify-token request
\* otherwise.
CheckAuth ==
    /\ checkAuth.pc = "mounted"
    /\ IF isAuthenticated
       THEN /\ checkAuth' = [checkAuth EXCEPT !.pc = "verifying"]
            /\ UNCHANGED loading
       ELSE /\ checkAuth' = [checkAuth EXCEPT !.pc = "done"]
            /\ loading' = FALSE
    /\ UNCHANGED <<appVars, token, localStorage, authCall, user, login, formVars>>

\* checkAuth with setLoading(false) moved into the branch of the verified
\* token.
VerifyTokenSettlesKeepsLoading(ok) ==
    /\ checkAuth.pc = "verifying"
    /\ IF ok
       THEN /\ checkAuth' = [checkAuth EXCEPT !.pc = "fetching", !.isValid = Defined(TRUE)]
            /\ UNCHANGED <<token, localStorage, loading>>
       ELSE /\ checkAuth' = [checkAuth EXCEPT !.pc = "done", !.isValid = Defined(FALSE)]
            /\ logout
            /\ UNCHANGED loading
    /\ UNCHANGED <<appVars, authCall, user, login, formVars>>

\* authService.ts lines 67-78 and AuthContext.tsx lines 29-35, 40:
\* verifyToken resolves to true on a 2xx response and to false on a
\* rejection; checkAuth then sends the /me request, or logs out and
\* finishes.
VerifyTokenSettles(ok) ==
    /\ checkAuth.pc = "verifying"
    /\ IF ok
       THEN /\ checkAuth' = [checkAuth EXCEPT !.pc = "fetching", !.isValid = Defined(TRUE)]
            /\ UNCHANGED <<token, localStorage, loading>>
       ELSE /\ checkAuth' = [checkAuth EXCEPT !.pc = "done", !.isValid = Defined(FALSE)]
            /\ logout
            /\ loading' = FALSE
    /\ UNCHANGED <<appVars, authCall, user, login, formVars>>

\* AuthContext.tsx lines 31-32, 40: the /me request of checkAuth resolved.
CheckAuthUserFetched(body) ==
    /\ checkAuth.pc = "fetching"
    /\ checkAuth' = [checkAuth EXCEPT !.pc = "done", !.userData = Defined(body)]
    /\ user' = body
    /\ loading' = FALSE
    /\ UNCHANGED <<appVars, token, localStorage, authCall, login, formVars>>

\* AuthContext.tsx lines 36-40: the /me request of checkAuth rejected.
CheckAuthUserFetchFails(err) ==
    /\ checkAuth.pc = "fetching"
    /\ checkAuth' = [checkAuth EXCEPT !.pc = "done", !.userData = [error |-> err]]
    /\ logout
    /\ loading' = FALSE
    /\ UNCHANGED <<appVars, authCall, user, login, formVars>>

\* AuthContext.tsx lines 46-48 and authService.ts lines 37-46: login is
\* called by caller and authService.login posts the credentials.
ContextLogin(caller) ==
    [ pc |-> "posting",
      caller |-> caller,
      before |-> [ token |-> token, localStorage |-> localStorage, user |-> user ],
      value |-> NoDoc ]

\* The login form (LoginForm, imported at part_002 line 2) calls login.
LoginFormSubmits ==
    /\ AuthPageShown
    /\ login.pc = "idle"
    /\ handleSubmit.pc \in {"idle", "done"}
    /\ login' = ContextLogin("LoginForm")
    /\ UNCHANGED <<appVars, token, localStorage, authCall, user, loading, checkAuth, formVars>>

\* authService.ts lines 48-50 and AuthContext.tsx line 49: the POST of
\* login resolved; the token of the body is stored and the /me request
\* sent, or reading access_token of a null body throws.
LoginPostResolves(body) ==
    /\ login.pc = "posting"
    /\ IF body = Null
       THEN /\ login' = [login EXCEPT !.pc = "rejected", !.value = [ name |-> "TypeError" ]]
            /\ UNCHANGED <<token, localStorage>>
       ELSE /\ login' = [login EXCEPT !.pc = "fetching"]
            /\ setToken(Field(body, "access_token"))
    /\ UNCHANGED <<appVars, authCall, user, loading, checkAuth, formVars>>

\* authService.ts line 42 and AuthContext.tsx lines 51-53: the POST of
\* login rejected and login throws the error again.
LoginPostRejects(err) ==
    /\ login.pc = "posting"
    /\ login' = [login EXCEPT !.pc = "rejected", !.value = err]
    /\ UNCHANGED <<appVars, token, localStorage, authCall, user, loading, checkAuth, formVars>>

\* AuthContext.tsx lines 49-50: the /me request of login resolved.
LoginUserFetched(body) ==
    /\ login.pc = "fetching"
    /\ login' = [login EXCEPT !.pc = "fulfilled"]
    /\ user' = body
    /\ UNCHANGED <<appVars, token, localStorage, authCall, loading, checkAuth, formVars>>

\* AuthContext.tsx lines 49, 51-53: the /me request of login rejected.
LoginUserFetchFails(err) ==
    /\ login.pc = "fetching"
    /\ login' = [login EXCEPT !.pc = "rejected", !.value = err]
    /\ UNCHANGED <<appVars, token, localStorage, authCall, user, loading, checkAuth, formVars>>

\* The login form has taken the outcome of its login call.
LoginFormResumes ==
    /\ login.caller = "LoginForm"
    /\ login.pc \in {"fulfilled", "rejected"}
    /\ login' = IdleLogin
    /\ UNCHANGED <<appVars, token, localStorage, authCall, user, loading, checkAuth, formVars>>

\* AuthContext.tsx lines 56-59, called by the Header (part_003 line 12).
ContextLogout ==
    /\ ~loading
    /\ user # Null
    /\ logout
    /\ user' = Null
    /\ UNCHANGED <<appVars, authCall, loading, checkAuth, login, formVars>>

(***************************************************************************)
(* RegisterForm.  handleSubmit (part_004 lines 20-49) validates the two    *)
(* passwords, awaits authService.register and then the login of the        *)
(* context.  The submit button is disabled while loading (line 139), so    *)
(* one invocation runs at a time.                                          *)
(***************************************************************************)

\* What is typed into the password fields: five and six characters.
Passwords ==
    { <<"a","b","c","d","e">>,
      <<"a","b","c","d","e","f">>,
      <<"a","b","c","d","e","g">> }

\* The shortest password handleSubmit accepts (line 31).
MinPasswordLength == 6

\* Lines 51-56: handleChange on the field called name.
HandleChange(name, value) ==
    /\ AuthPageShown
    /\ registerForm' = [registerForm EXCEPT !.userData[name] = value]
    /\ UNCHANGED <<appVars, token, localStorage, authCall, providerVars, handleSubmit>>

\* Line 131.
SetConfirmPassword(value) ==
    /\ AuthPageShown
    /\ registerForm' = [registerForm EXCEPT !.confirmPassword = value]
    /\ UNCHANGED <<appVars, token, localStorage, authCall, providerVars, handleSubmit>>

\* Line 45: err.response?.data?.detail || 'Registration failed'.
errorText(err) ==
    IF /\ "response" \in DOMAIN err
       /\ "detail" \in DOMAIN err.response.data
       /\ err.response.data.detail # ""
    THEN err.response.data.detail
    ELSE "Registration failed"

\* handleSubmit without the test of the length of the password.
HandleSubmitAnyLength ==
    /\ AuthPageShown
    /\ ~registerForm.loading
    /\ handleSubmit.pc \in {"idle", "done"}
    /\ login.pc = "idle"
    /\ IF registerForm.userData.password # registerForm.confirmPassword
       THEN /\ registerForm' = [registerForm EXCEPT !.error = "Passwords do not match",
                                                    !.loading = FALSE]
            /\ handleSubmit' = [ pc |-> "done",
                                 userData |-> registerForm.userData,
                                 confirmPassword |-> registerForm.confirmPassword,
                                 sent |-> <<>>,
                                 registered |-> FALSE ]
       ELSE /\ registerForm' = [registerForm EXCEPT !.error = "", !.loading = TRUE]
            /\ handleSubmit' = [ pc |-> "registering",
                                 userData |-> registerForm.userData,
                                 confirmPassword |-> registerForm.confirmPassword,
                                 sent |-> <<"register">>,
                                 registered |-> FALSE ]
    /\ UNCHANGED <<appVars, token, localStorage, authCall, providerVars>>

\* Lines 20-38, up to the first await: the invocation closes over the
\* userData and confirmPassword of the render; a failed validation sets
\* its error and returns, otherwise the register request is sent.
HandleSubmit ==
    /\ AuthPageShown
    /\ ~registerForm.loading
    /\ handleSubmit.pc \in {"idle", "done"}
    /\ login.pc = "idle"
    /\ IF registerForm.userData.password # registerForm.confirmPassword
       THEN /\ registerForm' = [registerForm EXCEPT !.error = "Passwords do not match",
                                                    !.loading = FALSE]
            /\ handleSubmit' = [ pc |-> "done",
                                 userData |-> registerForm.userData,
                                 confirmPassword |-> registerForm.confirmPassword,
                                 sent |-> <<>>,
                                 registered |-> FALSE ]
       ELSE IF Len(registerForm.userData.password) < MinPasswordLength
       THEN /\ registerForm' = [registerForm EXCEPT
                                   !.error = "Password must be at least 6 characters long",
                                   !.loading = FALSE]
            /\ handleSubmit' = [ pc |-> "done",
                                 userData |-> registerForm.userData,
                                 confirmPassword |-> registerForm.confirmPassword,
                                 sent |-> <<>>,
                                 registered |-> FALSE ]
       ELSE /\ registerForm' = [registerForm EXCEPT !.error = "", !.loading = TRUE]
            /\ handleSubmit' = [ pc |-> "registering",
                                 userData |-> registerForm.userData,
                                 confirmPassword |-> registerForm.confirmPassword,
                                 sent |-> <<"register">>,
                                 registered |-> FALSE ]
    /\ UNCHANGED <<appVars, token, localStorage, authCall, providerVars>>

\* Lines 38-43: the register request resolved and handleSubmit calls the
\* login of the context.
RegisterResolves ==
    /\ handleSubmit.pc = "registering"
    /\ handleSubmit' = [handleSubmit EXCEPT !.pc = "loggingIn",
                                            !.registered = TRUE,
                                            !.sent = Append(handleSubmit.sent, "login")]
    /\ login' = ContextLogin("RegisterForm")
    /\ UNCHANGED <<appVars, token, localStorage, authCall, user, loading, checkAuth,
                   registerForm>>

\* Lines 38, 44-48: the register request rejected.
RegisterRejects(err) ==
    /\ handleSubmit.pc = "registering"
    /\ handleSubmit' = [handleSubmit EXCEPT !.pc = "done"]
    /\ registerForm' = [registerForm EXCEPT !.error = errorText(err), !.loading = FALSE]
    /\ UNCHANGED <<appVars, token, localStorage, authCall, providerVars>>

\* Lines 40-48: the login call settled; its rejection is caught, and the
\* finally block resets loading.
HandleSubmitResumes ==
    /\ handleSubmit.pc = "loggingIn"
    /\ login.caller = "RegisterForm"
    /\ login.pc \in {"fulfilled", "rejected"}
    /\ handleSubmit' = [handleSubmit EXCEPT !.pc = "done"]
    /\ registerForm' = [registerForm EXCEPT
                          !.error = IF login.pc = "rejected"
                                    THEN errorText(login.value)
                                    ELSE registerForm.error,
                          !.loading = FALSE]
    /\ login' = IdleLogin
    /\ UNCHANGED <<appVars, token, localStorage, authCall, user, loading, checkAuth>>

(***************************************************************************)
(* The authentication code of the application: the start-up check, the     *)
(* forms of the AuthPage and the logout of the Header.                     *)
(***************************************************************************)

InitApp == InitAuthService

\* A request of the start-up check settles.
CheckAuthSettles ==
    \/ \E ok \in BOOLEAN : VerifyTokenSettles(ok)
    \/ \E body \in UserBodies : CheckAuthUserFetched(body)
    \/ \E err \in HttpErrors : CheckAuthUserFetchFails(err)

\* A request of the login of the context settles.
LoginSettles ==
    \/ \E body \in AuthBodies : LoginPostResolves(body)
    \/ \E err \in HttpErrors : LoginPostRejects(err)
    \/ \E body \in UserBodies : LoginUserFetched(body)
    \/ \E err \in HttpErrors : LoginUserFetchFails(err)

NextApp ==
    \/ CheckAuth
    \/ CheckAuthSettles
    \/ LoginFormSubmits
    \/ LoginSettles
    \/ LoginFormResumes
    \/ ContextLogout
    \/ \E value \in Passwords : HandleChange("password", value)
    \/ \E value \in Passwords : SetConfirmPassword(value)
    \/ HandleSubmit
    \/ RegisterResolves
    \/ \E err \in HttpErrors : RegisterRejects(err)
    \/ HandleSubmitResumes

SpecApp == InitApp /\ [][NextApp]_vars

\* The effect runs after the mount and the requests of the start-up check
\* settle.
FairSpecApp ==
    /\ SpecApp
    /\ WF_vars(CheckAuth)
    /\ WF_vars(CheckAuthSettles)

(***************************************************************************)
(* Properties                                                              *)
(***************************************************************************)

ResponseDocumentFields == {"message", "data", "visualizations", "suggestions"}

IsResponseDocument(d) == DOMAIN d = ResponseDocumentFields

\* The intent a returned document belongs to, read off its follow-up
\* suggestions: every return statement of generateMockResponse has its own.
IntentOf(d) ==
    IF ~IsResponseDocument(d) THEN "None"
    ELSE
      LET first == d.suggestions[1] IN
      CASE first = "Show depth profile for these anomalies" -> "TemperatureAnomaly"
        [] first = "Show salinity depth profile" -> "TemperatureDepthProfile"
        [] first = "Show confidence intervals" -> "TemperatureTrend"
        [] first = "Show temperature depth profile" -> "TemperatureGeneric"
        [] first = "Show salinity-temperature relationship" -> "Salinity"
        [] first = "Show velocity depth profile" -> "CurrentVelocity"
        [] first = "Analyze Gulf Stream influence" -> "RegionAtlantic"
        [] first = "Show El Niño effects" -> "RegionPacific"
        [] first = "Show me temperature trends" -> "Default"
        [] OTHER -> "None"

TemperatureIntents ==
    { "TemperatureAnomaly", "TemperatureDepthProfile", "TemperatureTrend", "TemperatureGeneric" }

\* The reference rule table: a rule matches when, of each of its groups, one
\* keyword occurs; the first rule that matches gives the intent.
RuleTable ==
    << [groups |-> << {kwTemperature}, {kwAnomaly, kwUnusual} >>, intent |-> "TemperatureAnomaly"],
       [groups |-> << {kwTemperature}, {kwDepth, kwProfile} >>, intent |-> "TemperatureDepthProfile"],
       [groups |-> << {kwTemperature}, {kwTrend} >>, intent |-> "TemperatureTrend"],
       [groups |-> << {kwTemperature} >>, intent |-> "TemperatureGeneric"],
       [groups |-> << {kwSalinity} >>, intent |-> "Salinity"],
       [groups |-> << {kwCurrent, kwVelocity} >>, intent |-> "CurrentVelocity"],
       [groups |-> << {kwAtlantic} >>, intent |-> "RegionAtlantic"],
       [groups |-> << {kwPacific} >>, intent |-> "RegionPacific"],
       [groups |-> << >>, intent |-> "Default"] >>

\* kw occurs in s: s is a prefix of kw's occurrence followed by a rest.
RECURSIVE Occurs(_, _)
Occurs(kw, s) ==
    IF Len(s) < Len(kw) THEN FALSE
    ELSE IF \A j \in 1..Len(kw) : s[j] = kw[j] THEN TRUE
    ELSE Occurs(kw, Tail(s))

RuleMatches(rule, s) ==
    \A g \in 1..Len(rule.groups) : \E kw \in rule.groups[g] : Occurs(kw, s)

FirstMatch(s) ==
    LET i == CHOOSE i \in 1..Len(RuleTable) :
                 /\ RuleMatches(RuleTable[i], s)
                 /\ \A j \in 1..(i - 1) : ~RuleMatches(RuleTable[j], s)
    IN RuleTable[i].intent

\* The keywords that occur in the lower-cased message.
Present(msg) == { k \in KeywordIds : Occurs(Keywords[k], toLowerCase(msg)) }

\* C1: the branch generateMockResponse selects for a message is the one the
\* reference rule table gives by first-match-wins on the lower-cased text,
\* for every combination of keywords present or absent.
C1_FirstMatchWins ==
    called => IntentOf(doc) = FirstMatch(toLowerCase(message))

\* C1 witness: a message in which the temperature, trend, salinity, current
\* and pacific rules all match has been answered by the temperature trend branch.
C1_Witness ==
    /\ called
    /\ Present(message) = {1, 6, 7, 8, 11}
    /\ IntentOf(doc) = "TemperatureTrend"

\* C2: a message that contains both 'temperature' and 'salinity' resolves to
\* one of the four temperature intents, never to Salinity.
C2_TemperatureBeforeSalinity ==
    (called /\ {1, 7} \subseteq Present(message))
        => (IntentOf(doc) \in TemperatureIntents /\ IntentOf(doc) # "Salinity")

\* C2 witness: a message with 'salinity' before 'temperature' and no other
\* keyword has been answered by the generic temperature branch.
C2_Witness ==
    /\ called
    /\ text = BuildText({1, 7}, <<" ">>, TRUE)
    /\ IntentOf(doc) = "TemperatureGeneric"

\* C3: for every input string generateMockResponse returns a
\* ResponseDocument with a non-empty message, exactly 4 suggestions and at
\* least 1 visualization.
C3_TotalWellFormed ==
    called =>
        /\ IsResponseDocument(doc)
        /\ doc.message # ""
        /\ Len(doc.suggestions) = 4
        /\ Len(doc.visualizations) >= 1

\* C3 witness: a whitespace-only message has been answered.
C3_Witness ==
    /\ called
    /\ message = <<" ", " ", " ">>
    /\ IsResponseDocument(doc)

\* Two strings differ only in letter case.
DifferOnlyInCase(s, t) ==
    /\ Len(s) = Len(t)
    /\ \A i \in 1..Len(s) :
         \/ s[i] = t[i]
         \/ s[i] \in DOMAIN UpperToLower /\ UpperToLower[s[i]] = t[i]
         \/ t[i] \in DOMAIN UpperToLower /\ UpperToLower[t[i]] = s[i]

\* C6: two messages that differ only in letter case resolve to the same
\* intent.
C6_CaseInsensitive ==
    (called /\ prevDoc # NoDoc /\ DifferOnlyInCase(prevMessage, message))
        => IntentOf(prevDoc) = IntentOf(doc)

\* C6 witness: 'TEMPERATURE trend' and then 'temperature TREND' have both
\* been answered by the temperature trend branch.
C6_Witness ==
    /\ prevDoc # NoDoc
    /\ prevMessage = <<"T","E","M","P","E","R","A","T","U","R","E"," ","t","r","e","n","d">>
    /\ message = <<"t","e","m","p","e","r","a","t","u","r","e"," ","T","R","E","N","D">>
    /\ IntentOf(doc) = "TemperatureTrend"

\* The kinds of a document's visualizations, in order.
VisualizationKinds(d) == [i \in 1..Len(d.visualizations) |-> d.visualizations[i].type]

\* C8: the empty string resolves to Default, with a non-empty message,
\* exactly 1 visualization, a plot, and exactly 4 suggestions.
C8_EmptyIsDefault ==
    (called /\ message = <<>>) =>
        /\ IntentOf(doc) = "Default"
        /\ doc.message # ""
        /\ VisualizationKinds(doc) = <<"plot">>
        /\ Len(doc.suggestions) = 4

\* C8 witness: the empty string has been answered.
C8_Witness ==
    /\ called
    /\ text = <<>>
    /\ message = <<>>
    /\ doc # NoDoc

\* The anomaly values of a document's data, in order.
AnomalyValues(d) == [i \in 1..Len(d.data.anomalies) |-> d.data.anomalies[i].anomaly]

AnomalyDataAsSpecified(d) ==
    /\ Len(d.data.anomalies) = 3
    /\ AnomalyValues(d) = <<2100, -1800, 3200>>
    /\ d.data.statistics.confidence = 950

\* C9: every call that resolves to TemperatureAnomaly returns 3 anomalies
\* with the values 2.1, -1.8, 3.2 in that order and confidence 0.95, the
\* same on every call.
C9_AnomalyData ==
    /\ IntentOf(doc) = "TemperatureAnomaly" => AnomalyDataAsSpecified(doc)
    /\ IntentOf(prevDoc) = "TemperatureAnomaly" => AnomalyDataAsSpecified(prevDoc)
    /\ (IntentOf(doc) = "TemperatureAnomaly" /\ IntentOf(prevDoc) = "TemperatureAnomaly")
          => doc.data = prevDoc.data

\* C9 witness: 'Show temperature anomaly' has been answered twice.
C9_Witness ==
    /\ message = <<"S","h","o","w"," ","t","e","m","p","e","r","a","t","u","r","e"," ","a","n","o","m","a","l","y">>
    /\ prevMessage = message
    /\ IntentOf(doc) = "TemperatureAnomaly"
    /\ IntentOf(prevDoc) = "TemperatureAnomaly"

\* C10: a call that resolves to TemperatureDepthProfile returns 13 depths
\* and 13 temperatures, from depth 0 to 2000 and from 22.1 to 4.0, the depths
\* increasing and the temperatures never increasing.
C10_DepthProfileData ==
    IntentOf(doc) = "TemperatureDepthProfile" =>
        LET depths == doc.data.depths
            temperatures == doc.data.temperatures
        IN /\ Len(depths) = 13
           /\ Len(temperatures) = 13
           /\ depths[1] = 0
           /\ depths[Len(depths)] = 2000
           /\ temperatures[1] = 22100
           /\ temperatures[Len(temperatures)] = 4000
           /\ \A i \in 1..(Len(depths) - 1) : depths[i] < depths[i + 1]
           /\ \A i \in 1..(Len(temperatures) - 1) : temperatures[i] >= temperatures[i + 1]

\* C10 witness: 'temperature depth profile' has been answered by the depth
\* profile branch.
C10_Witness ==
    /\ message = <<"t","e","m","p","e","r","a","t","u","r","e"," ","d","e","p","t","h"," ","p","r","o","f","i","l","e">>
    /\ IntentOf(doc) = "TemperatureDepthProfile"

(***************************************************************************)
(* Properties of chatService.sendMessage                                   *)
(***************************************************************************)

\* C4: sendMessage never rejects; when the POST fails, by timeout,
\* connection error or status, the promise is fulfilled with the document
\* the engine returns for the same message.
C4_NeverRejects ==
    \A c \in Callers :
        /\ call[c].pc # "rejected"
        /\ (call[c].pc = "fulfilled" /\ call[c].outcome \in PostFailures) =>
              \E env \in Envs : call[c].value = generateMockResponse(call[c].arg, env)

\* C4 witness: one call has been fulfilled after a timeout and another
\* after a non-success status.
C4_Witness ==
    \E c, d \in Callers :
        /\ call[c].pc = "fulfilled" /\ call[c].outcome = "timeout"
        /\ call[d].pc = "fulfilled" /\ call[d].outcome = "status"
        /\ IsResponseDocument(call[c].value)
        /\ IsResponseDocument(call[d].value)

\* C5: a call makes exactly one network attempt and never another; the
\* engine runs only after that attempt has failed, and once; when the
\* attempt succeeds the backend's body is returned and the engine has not run.
C5_OneAttempt ==
    \A c \in Callers :
        /\ call[c].posts <= 1
        /\ call[c].pc # "idle" => call[c].posts = 1
        /\ call[c].pc = "awaiting" => call[c].engineCalls = 0
        /\ call[c].engineCalls > 0 =>
              (call[c].engineCalls = 1 /\ call[c].outcome \in PostFailures)
        /\ call[c].outcome \in PostFailures => call[c].engineCalls = 1
        /\ call[c].outcome = "ok" =>
              (call[c].pc = "fulfilled" /\ call[c].value \in LiveBodies /\ call[c].engineCalls = 0)

\* C5 witness: one call has returned the backend's body and another the
\* engine's document.
C5_Witness ==
    \E c, d \in Callers :
        /\ call[c].pc = "fulfilled" /\ call[c].outcome = "ok" /\ call[c].engineCalls = 0
        /\ call[d].pc = "fulfilled" /\ call[d].outcome = "network" /\ call[d].engineCalls = 1

\* C7: whatever the draws and however the calls interleave, two calls with
\* the same message that reach the engine get the same message text, the
\* same suggestions and the same visualization kinds.
C7_IntentDependsOnInputOnly ==
    \A c, d \in Callers :
        ( /\ call[c].pc = "fulfilled" /\ call[c].outcome \in PostFailures
          /\ call[d].pc = "fulfilled" /\ call[d].outcome \in PostFailures
          /\ call[c].arg = call[d].arg )
        => /\ call[c].value.message = call[d].value.message
           /\ call[c].value.suggestions = call[d].value.suggestions
           /\ VisualizationKinds(call[c].value) = VisualizationKinds(call[d].value)

\* C7 witness: two calls with the message 'temperature' have been answered
\* by the engine with different draws.
C7_Witness ==
    \E c, d \in Callers :
        /\ call[c].pc = "fulfilled" /\ call[c].outcome \in PostFailures
        /\ call[d].pc = "fulfilled" /\ call[d].outcome \in PostFailures
        /\ call[c].arg = <<"t","e","m","p","e","r","a","t","u","r","e">>
        /\ call[d].arg = call[c].arg
        /\ call[c].value.data.temperatures # call[d].value.data.temperatures

(***************************************************************************)
(* Properties of the synthesized data and visualizations                   *)
(***************************************************************************)

\* C11: a call that resolves to TemperatureGeneric returns exactly 30
\* temperatures, each within [16.4, 21.0] whatever the draws, with the
\* statistics block mean 18.7, std 2.3, min 15.2, max 22.1,
\* valid_measurements 0.96, active_floats 47.
C11_GenericSeriesBounded ==
    IntentOf(doc) = "TemperatureGeneric" =>
        /\ Len(doc.data.temperatures) = 30
        /\ \A i \in 1..Len(doc.data.temperatures) :
              doc.data.temperatures[i] >= 16400 /\ doc.data.temperatures[i] <= 21000
        /\ doc.data.statistics =
              [ mean |-> 18700, std |-> 2300, min |-> 15200, max |-> 22100,
                valid_measurements |-> 960, active_floats |-> 47 ]

\* C11 witness: 'temperature' has been answered with a series that holds the
\* smallest value, from the draw 0, and a value from the largest draw.
C11_Witness ==
    /\ message = <<"t","e","m","p","e","r","a","t","u","r","e">>
    /\ IntentOf(doc) = "TemperatureGeneric"
    /\ \E i, j \in 1..Len(doc.data.temperatures) :
          /\ doc.data.temperatures[i] = 16400
          /\ doc.data.temperatures[j] = JitteredTemperature(RandGrid[Len(RandGrid)])

\* The visualization kinds the specification gives for each intent.
KindsOfIntent ==
    [ TemperatureAnomaly |-> <<"plot">>,
      TemperatureDepthProfile |-> <<"plot">>,
      TemperatureTrend |-> <<"plot">>,
      TemperatureGeneric |-> <<"plot", "map">>,
      Salinity |-> <<"plot">>,
      CurrentVelocity |-> <<"map", "plot">>,
      RegionAtlantic |-> <<"map", "plot">>,
      RegionPacific |-> <<"map">>,
      Default |-> <<"plot">> ]

\* C12: every document carries the visualization kinds of its intent, in
\* the order of the table: anomaly, depth profile, trend [plot]; generic
\* [plot, map]; salinity [plot]; current and atlantic [map, plot]; pacific
\* [map]; default [plot].
C12_VisualizationKinds ==
    called =>
        /\ IntentOf(doc) \in DOMAIN KindsOfIntent
        /\ VisualizationKinds(doc) = KindsOfIntent[IntentOf(doc)]

\* C12 witness: a message with 'velocity' and 'pacific' has been answered
\* by the current branch with a map followed by a plot.
C12_Witness ==
    /\ called
    /\ Present(message) = {9, 11}
    /\ IntentOf(doc) = "CurrentVelocity"
    /\ VisualizationKinds(doc) = <<"map", "plot">>

\* C14: no message that contains 'temperature' resolves to Salinity,
\* CurrentVelocity, a region intent or Default; with 'atlantic' or 'pacific'
\* beside it the temperature sub-branch still answers.
C14_TemperatureBeforeRegion ==
    (called /\ 1 \in Present(message)) => IntentOf(doc) \in TemperatureIntents

\* C14 witness: 'pacific temperature trend' has been answered by the
\* temperature trend branch.
C14_Witness ==
    /\ called
    /\ message = <<"p","a","c","i","f","i","c"," ","t","e","m","p","e","r","a","t","u","r","e"," ","t","r","e","n","d">>
    /\ IntentOf(doc) = "TemperatureTrend"

\* kw occurs in s as a word of its own, between blanks or the ends of s.
OccursAsWord(kw, s) ==
    \E i \in 0..(Len(s) - Len(kw)) :
        /\ \A j \in 1..Len(kw) : s[i + j] = kw[j]
        /\ (i = 0 \/ s[i] = " ")
        /\ (i + Len(kw) = Len(s) \/ s[i + Len(kw) + 1] = " ")

\* The keywords that occur in the lower-cased message as words of their own.
PresentAsWord(msg) == { k \in KeywordIds : OccursAsWord(Keywords[k], toLowerCase(msg)) }

\* C15: keywords match as substrings: a message whose keywords occur only
\* inside longer words, and satisfy some rule of the table as substrings,
\* resolves to the intent of the first such rule, not to Default; and
\* 'decurrent' resolves to CurrentVelocity.
C15_SubstringMatch ==
    /\ (called /\ FirstMatch(toLowerCase(message)) # "Default"
               /\ PresentAsWord(message) = {}) =>
          /\ IntentOf(doc) = FirstMatch(toLowerCase(message))
          /\ IntentOf(doc) # "Default"
    /\ (called /\ message = <<"d","e","c","u","r","r","e","n","t">>) =>
          IntentOf(doc) = "CurrentVelocity"

\* C15 witness: 'decurrent' has been answered by the current branch.
C15_Witness ==
    /\ called
    /\ message = <<"d","e","c","u","r","r","e","n","t">>
    /\ PresentAsWord(message) = {}
    /\ IntentOf(doc) = "CurrentVelocity"

\* The years of a trend document are 2009..2024, one per year, with one
\* temperature each, trend_slope 0.015 and r_squared 0.87.
TrendYearsAndFit(d) ==
    /\ Len(d.data.years) = 16
    /\ Len(d.data.temperatures) = 16
    /\ \A i \in 1..16 : d.data.years[i] = 2008 + i
    /\ d.data.trend_slope = 15
    /\ d.data.r_squared = 870

\* C16 as stated: the trend data is a 16-entry series for 2009..2024 whose
\* temperatures never fall from one year to the next, with trend_slope 0.015
\* and r_squared 0.87.
C16_TrendNonDecreasing ==
    IntentOf(doc) = "TemperatureTrend" =>
        /\ TrendYearsAndFit(doc)
        /\ \A i \in 1..15 : doc.data.temperatures[i] <= doc.data.temperatures[i + 1]

\* C16 amended: the trend data is a 16-entry series for 2009..2024 that
\* rises from 17.8 to 19.6; a year may fall below the year before it by at
\* most 0.1, and no year falls below the year two before it; trend_slope is
\* 0.015 and r_squared 0.87.
C16_TrendRisesOverall ==
    IntentOf(doc) = "TemperatureTrend" =>
        /\ TrendYearsAndFit(doc)
        /\ doc.data.temperatures[1] = 17800
        /\ doc.data.temperatures[16] = 19600
        /\ \A i \in 1..15 : doc.data.temperatures[i + 1] >= doc.data.temperatures[i] - 100
        /\ \A i \in 1..14 : doc.data.temperatures[i + 2] >= doc.data.temperatures[i]

\* C16 witness: a trend document has been returned whose 2012 value (18.0)
\* is below its 2011 value (18.1).
C16_Witness ==
    /\ called
    /\ IntentOf(doc) = "TemperatureTrend"
    /\ doc.data.years[4] = 2012
    /\ doc.data.temperatures[4] < doc.data.temperatures[3]

\* C22: the paired arrays of a document's data have equal length: depths
\* and temperatures 13 (depth profile), years and temperatures 16 (trend),
\* dates and temperatures 30 (generic), depths and salinity 11 (salinity),
\* velocities and directions 10 (current).
C22_PairedLengths ==
    /\ IntentOf(doc) = "TemperatureDepthProfile" =>
          Len(doc.data.depths) = 13 /\ Len(doc.data.temperatures) = 13
    /\ IntentOf(doc) = "TemperatureTrend" =>
          Len(doc.data.years) = 16 /\ Len(doc.data.temperatures) = 16
    /\ IntentOf(doc) = "TemperatureGeneric" =>
          Len(doc.data.dates) = 30 /\ Len(doc.data.temperatures) = 30
    /\ IntentOf(doc) = "Salinity" =>
          Len(doc.data.depths) = 11 /\ Len(doc.data.salinity) = 11
    /\ IntentOf(doc) = "CurrentVelocity" =>
          Len(doc.data.velocities) = 10 /\ Len(doc.data.directions) = 10

\* C22 witness: a current document has been returned with ten velocities
\* and ten directions, the last 0.29 m/s towards 228 degrees.
C22_Witness ==
    /\ called
    /\ IntentOf(doc) = "CurrentVelocity"
    /\ Len(doc.data.velocities) = 10
    /\ doc.data.velocities[10] = 290
    /\ doc.data.directions[10] = 228

\* The first series of the first visualization of a document.
PrimarySeries(d) == d.visualizations[1].data.data[1]

\* C20: for the depth-profile, trend and salinity intents the primary series
\* of the plot holds the arrays of the returned data: depth profile x =
\* data.temperatures, y = data.depths; trend x = data.years, y =
\* data.temperatures; salinity x = data.salinity, y = data.depths.
C20_PlotWrapsData ==
    /\ IntentOf(doc) = "TemperatureDepthProfile" =>
          /\ PrimarySeries(doc).x = doc.data.temperatures
          /\ PrimarySeries(doc).y = doc.data.depths
    /\ IntentOf(doc) = "TemperatureTrend" =>
          /\ PrimarySeries(doc).x = doc.data.years
          /\ PrimarySeries(doc).y = doc.data.temperatures
    /\ IntentOf(doc) = "Salinity" =>
          /\ PrimarySeries(doc).x = doc.data.salinity
          /\ PrimarySeries(doc).y = doc.data.depths

\* C20 witness: a salinity document has been returned whose plot holds the
\* eleven salinity values of its data, from 34.8 at the surface.
C20_Witness ==
    /\ called
    /\ IntentOf(doc) = "Salinity"
    /\ doc.visualizations[1].type = "plot"
    /\ Len(PrimarySeries(doc).x) = 11
    /\ PrimarySeries(doc).x[1] = 34800
    /\ PrimarySeries(doc).x = doc.data.salinity

\* C19: for the generic temperature intent the series plotted in the first
\* visualization is the series data.temperatures of the same document,
\* whatever the random draws are.
C19_GenericPlotWrapsData ==
    IntentOf(doc) = "TemperatureGeneric" =>
        /\ doc.visualizations[1].type = "plot"
        /\ PrimarySeries(doc).y = doc.data.temperatures

(***************************************************************************)
(* Properties of chatService.getChatHistory                                *)
(***************************************************************************)

\* C13: a getChatHistory call never rejects: a call whose request failed is
\* fulfilled with { messages: [] }, and a call whose request succeeded is
\* fulfilled with the body of the response.
C13_HistoryNeverRejects ==
    \A c \in Callers :
        /\ history[c].pc # "rejected"
        /\ (history[c].pc = "fulfilled" /\ history[c].outcome \in GetFailures) =>
              history[c].value = [messages |-> <<>>]
        /\ (history[c].pc = "fulfilled" /\ history[c].outcome = "ok") =>
              /\ history[c].response.data \in HistoryBodies
              /\ history[c].value = history[c].response.data

\* C13 witness: of two concurrent history calls one has failed on the
\* network and returned the empty list, and one has returned a body with two
\* messages.
C13_Witness ==
    \E c, d \in Callers :
        /\ history[c].pc = "fulfilled" /\ history[c].outcome = "network"
        /\ history[c].value = [messages |-> <<>>]
        /\ history[d].pc = "fulfilled" /\ history[d].outcome = "ok"
        /\ "messages" \in DOMAIN history[d].value
        /\ Len(history[d].value.messages) = 2

(***************************************************************************)
(* Properties of the engine under every random source                      *)
(***************************************************************************)

\* C17: when two calls with the same input resolve to an intent other than
\* TemperatureGeneric, the two documents are equal in message, data,
\* visualizations and suggestions, whatever the random source had in store
\* for either call.
C17_OnlyGenericReadsDraws ==
    ( /\ called
      /\ prevDoc # NoDoc
      /\ prevMessage = message
      /\ IntentOf(doc) # "TemperatureGeneric" )
    => /\ doc.message = prevDoc.message
       /\ doc.data = prevDoc.data
       /\ doc.visualizations = prevDoc.visualizations
       /\ doc.suggestions = prevDoc.suggestions

\* C17 witness: a message whose one keyword is 'salinity' has been answered
\* twice, the random source holding different draws for the two calls, with
\* equal documents.
C17_Witness ==
    /\ called
    /\ Present(message) = {7}
    /\ prevMessage = message
    /\ prevDoc # NoDoc
    /\ draws # prevDraws
    /\ draws[1] # prevDraws[1]
    /\ IntentOf(doc) = "Salinity"
    /\ doc = prevDoc

(***************************************************************************)
(* Properties of ChatInterface                                             *)
(***************************************************************************)

\* C18: when the sendMessage call a handleSendMessage invocation awaits has
\* failed at the backend, the invocation appends one bot message that
\* carries the message, data, visualizations and suggestions of the engine's
\* document for the text sent, and not the 'Sorry, I encountered an error'
\* message.
C18_FailureShowsEngineResponse ==
    [][ \A c \in Callers :
          ( /\ handler[c] = "awaiting"
            /\ handler'[c] = "done"
            /\ call[c].outcome \in PostFailures )
          => /\ Len(messages') = Len(messages) + 1
             /\ \E env \in Envs : call[c].value = generateMockResponse(call[c].arg, env)
             /\ messages'[Len(messages')] # errorMessage(now)
             /\ messages'[Len(messages')] =
                   [ id |-> now + 1,
                     type |-> "bot",
                     content |-> Defined(call[c].value.message),
                     data |-> Defined(call[c].value.data),
                     visualizations |-> Defined(call[c].value.visualizations),
                     suggestions |-> Defined(call[c].value.suggestions) ] ]_vars

\* C18 witness: 'salinity' was sent, the POST failed on the network, and the
\* bot message appended after the user's message carries the engine's
\* salinity document.
C18_Witness ==
    \E c \in Callers :
        /\ handler[c] = "done"
        /\ call[c].outcome = "network"
        /\ IntentOf(call[c].value) = "Salinity"
        /\ Len(messages) = 3
        /\ messages[2] = userMessage(<<"s","a","l","i","n","i","t","y">>, now)
        /\ messages[3].type = "bot"
        /\ messages[3].content = Defined(call[c].value.message)
        /\ messages[3].data = Defined(generateSalinityData)
        /\ ~isLoading

(***************************************************************************)
(* Properties of the engine under every clock                              *)
(***************************************************************************)

\* The calendar day, in UTC, on which the latest call started.
DayOfCall == toISODate(clock.zone, [day |-> clock.day, hour |-> clock.hour]).day

\* C23: for the generic temperature intent data.dates holds exactly 30
\* dates, each the day after the one before it, the last the day of the call
\* and entry i (from 0) the day 29 - i days before the day of the call.
C23_RollingDates ==
    IntentOf(doc) = "TemperatureGeneric" =>
        /\ Len(doc.data.dates) = 30
        /\ \A j \in 1..29 : doc.data.dates[j + 1].day = doc.data.dates[j].day + 1
        /\ doc.data.dates[30].day = DayOfCall
        /\ \A j \in 1..30 : doc.data.dates[j].day = DayOfCall - (30 - j)

(***************************************************************************)
(* Properties of the engine and the objects it returns                     *)
(***************************************************************************)

\* C21: whatever has been written to the documents earlier calls returned,
\* a call returns the document the engine computes from its input, its draws
\* and its clock alone; with the same input and the same draws it equals the
\* document the call before returned.
C21_FreshPerCall ==
    called =>
        /\ doc = generateMockResponse(message, [rand |-> draws, clock |-> clock])
        /\ (prevDoc # NoDoc /\ prevMessage = message /\ prevDraws = draws) => doc = prevDoc

\* C21 witness: 'salinity' was answered, the message of that document was
\* overwritten and its data emptied, and a second call with 'salinity' has
\* returned, at another address, the document the first call returned.
C21_Witness ==
    /\ Len(heap) = 2
    /\ ref = 2
    /\ heap[1].message = "tampered"
    /\ heap[1].data = [tampered |-> TRUE]
    /\ IntentOf(doc) = "Salinity"
    /\ doc = prevDoc
    /\ heap[2] = doc

(***************************************************************************)
(* Properties of the ChatInterface handlers                                *)
(***************************************************************************)

\* The sendMessage calls that have not settled or whose handler has not
\* resumed.
Outstanding == { c \in Callers : handler[c] = "awaiting" }

\* C24: at most one sendMessage call is outstanding at any time, and a step
\* taken while a send is outstanding starts no call and appends nothing but
\* the bot message of the send that resumes.
C24_OneSendOutstanding ==
    [][ /\ Cardinality({ c \in Callers : handler'[c] = "awaiting" }) <= 1
        /\ Outstanding # {} =>
              /\ \A d \in Callers : call'[d].pc = "awaiting" => call[d].pc = "awaiting"
              /\ \A d \in Callers : call'[d].posts <= call[d].posts
              /\ messages' # messages =>
                    \E c \in Outstanding :
                        /\ handler'[c] = "done"
                        /\ Len(messages') = Len(messages) + 1
                        /\ messages'[Len(messages')].type = "bot" ]_vars

\* C24 witness: a send is outstanding, its POST not settled, and a text has
\* been put into the input again, so that a click or an Enter key now runs
\* handleSendMessage on a text that is not blank.
C24_Witness ==
    /\ Cardinality(Outstanding) = 1
    /\ \E c \in Outstanding : call[c].pc = "awaiting"
    /\ isLoading
    /\ view.isLoading
    /\ trim(view.inputValue) # <<>>
    /\ Len(messages) = 2

\* C25: the messages list only grows at its end; after the greeting, user
\* messages and bot messages alternate, each bot message following the user
\* message it answers; and every accepted send is followed, eventually, by
\* its bot message appended and isLoading false.
C25_EverySendAnswered ==
    /\ [][ /\ Len(messages') >= Len(messages)
           /\ SubSeq(messages', 1, Len(messages)) = messages ]_vars
    /\ [](\A i \in 2..Len(messages) :
             messages[i].type = (IF i % 2 = 0 THEN "user" ELSE "bot"))
    /\ [](isLoading <=> Len(messages) % 2 = 0)
    /\ \A n \in 1..MaxSends :
          (Len(messages) = 2 * n)
             ~> (Len(messages) = 2 * n + 1 /\ messages[2 * n + 1].type = "bot" /\ ~isLoading)

\* C25 witness: two sends have been answered, the first by a bot message
\* with the engine's document and the second by the error message, and
\* isLoading is false.
C25_Witness ==
    /\ Len(messages) = 5
    /\ messages[2].type = "user" /\ messages[4].type = "user"
    /\ messages[3].type = "bot" /\ messages[3].data # Undefined
    /\ messages[5] = errorMessage(now)
    /\ ~isLoading

\* C26: the messages held by the ChatInterface have pairwise distinct ids,
\* whether the clock stands still or advances by one millisecond between
\* two events.
C26_DistinctIds ==
    \A i \in 1..Len(messages) : \A j \in 1..Len(messages) :
        i # j => messages[i].id # messages[j].id

(***************************************************************************)
(* Properties of the authentication code                                   *)
(***************************************************************************)

\* C27: after any sequence of login, setToken and logout operations of
\* AuthService the token field equals the 'access_token' entry of
\* localStorage, both absent or both the same value, and isAuthenticated()
\* is true exactly when a token is stored.
C27_TokenMirrorsStorage ==
    /\ token = localStorage
    /\ isAuthenticated <=> localStorage # Null

\* C28: a login through the context that rejects leaves the authentication
\* state as it was before the attempt: user is null, and the token field
\* and the localStorage entry are what they were, whether the credential
\* request or the getCurrentUser request failed.
C28_FailedLoginLeavesState ==
    login.pc = "rejected" =>
        /\ user = Null
        /\ token = login.before.token
        /\ localStorage = login.before.localStorage

\* The start-up check finishes in this step.
CheckAuthFinishes == checkAuth.pc # "done" /\ checkAuth'.pc = "done"

ValidationFails ==
    \/ handleSubmit.userData.password # handleSubmit.confirmPassword
    \/ Len(handleSubmit.userData.password) < 6

\* The error the validation sets.
ValidationError ==
    IF handleSubmit.userData.password # handleSubmit.confirmPassword
    THEN "Passwords do not match"
    ELSE "Password must be at least 6 characters long"

\* C30: handleSubmit of the RegisterForm sends no register or login request
\* when the password and its confirmation differ or the password has fewer
\* than 6 characters, and sets the matching error; on every path loading
\* is false when the handler has finished; and login is attempted only
\* after register succeeded.
C30_RegisterSubmit ==
    /\ (handleSubmit.pc # "idle" /\ ValidationFails) =>
          /\ handleSubmit.pc = "done"
          /\ handleSubmit.sent = <<>>
          /\ login.caller # "RegisterForm"
          /\ registerForm.error = ValidationError
    /\ handleSubmit.pc = "done" => ~registerForm.loading
    /\ handleSubmit.pc \in {"registering", "loggingIn"} => registerForm.loading
    /\ login.caller = "RegisterForm" =>
          /\ handleSubmit.registered
          /\ handleSubmit.sent = <<"register", "login">>
    /\ handleSubmit.sent \in { <<>>, <<"register">>, <<"register", "login">> }
    /\ handleSubmit.sent = <<"register", "login">> <=> handleSubmit.registered

\* A password of five characters, confirmed, was submitted: the handler
\* finished with the length error and sent nothing.
C30_Witness ==
    /\ handleSubmit.pc = "done"
    /\ handleSubmit.userData.password = handleSubmit.confirmPassword
    /\ Len(handleSubmit.userData.password) = 5
    /\ handleSubmit.sent = <<>>
    /\ registerForm.error = "Password must be at least 6 characters long"
    /\ ~registerForm.loading

====
